---- MODULE Spec2Model ----
(***************************************************************************)
(* Model of the predictive-analytics core of Fortuna: the predictor        *)
(* lifecycle (BasePredictor, SpendingPredictor, GoalAchievementScorer),    *)
(* its persistence on disk, the AIService request operations, the forecast *)
(* interval arithmetic, the goal features and bands, the anomaly detector  *)
(* and the emotional-pattern risk score.                                   *)
(*                                                                         *)
(* Abstractions.  A fitted scikit-learn estimator or scaler is a token:    *)
(* the number of rows of the table it was fitted on (fitting is seeded,    *)
(* random_state=42, hence a function of the data); Unfitted is an          *)
(* estimator that was constructed but never fitted.  Exceptions are the    *)
(* outcome strings below; "ok" is a normal return.                         *)
(*   "ModelNotTrained"  ValueError("Model not trained. Call train() ...")  *)
(*   "InsufficientData" ValueError("Need at least 60 days of data ...")    *)
(*   "Persistence"      ValueError("Cannot save untrained model")          *)
(*   "MissingFeature"   ValueError("Missing features: ...")                *)
(*   "FileNotFound"     FileNotFoundError (open / os.path.exists check)    *)
(*   "NotFitted"        sklearn NotFittedError                             *)
(*   "ShapeError"       sklearn ValueError on a wrong number of features   *)
(*   "KeyError"         pandas KeyError on a missing column                *)
(***************************************************************************)
EXTENDS Integers, Sequences, FiniteSets, TLC

VARIABLES inst, disk, last, removed, orig, trip, svc, fc, gsc, det, emo,
          tf, par, rec

vars == <<inst, disk, last, removed, orig, trip, svc, fc, gsc, det, emo,
          tf, par, rec>>

\* The variables the predictor lifecycle leaves alone.
others == <<svc, fc, gsc, det, emo, tf, par, rec>>

\* ------------------------------------------------------------------ bounds
RowSlack == 1
MaxRemovals == 1
MaxInputs == 1
HistoryGoals == 50
MaxExpenses == 2
MaxGoals == 2
MaxMember == 5

\* ------------------------------------------------------- program constants
MinTrainRows == 60
MinPredictRows == 30
SyntheticSamples == 1000
Unfitted == 0
NoneModel == -1
Absent == -2

\* One live predictor instance (replaced by Construct) and one directory.
Inst == {"a"}
Paths == {"models"}
PredictInputs == 1..MaxInputs

Classes == {"spending_predictor", "goal_achievement_scorer"}

MemberNames == <<"gbm", "rf", "ridge">>

SpendingFeatureNames ==
  << "day_of_week", "day_of_month", "month", "is_weekend",
     "is_month_start", "is_month_end", "is_payday",
     "rolling_7d_avg", "rolling_14d_avg", "rolling_30d_avg",
     "spending_velocity", "spending_volatility",
     "lag_1", "lag_7", "lag_14", "lag_30" >>

GoalFeatureNames ==
  << "completion_rate", "days_to_deadline", "days_elapsed",
     "required_daily_savings", "monthly_allocation", "priority_level",
     "is_mandatory", "avg_monthly_income", "avg_daily_spending",
     "income_stability", "savings_rate", "goal_amount_relative",
     "on_track_indicator", "savings_velocity" >>

Range(s) == { s[k] : k \in 1..Len(s) }

\* ------------------------------------------------------------- constructors
\* BasePredictor.__init__ followed by the subclass constructor.
BaseInit(name) ==
  [ model_name    |-> name,
    model         |-> NoneModel,
    is_trained    |-> FALSE,
    training_date |-> 0,
    metadata      |-> 0,
    feature_names |-> <<>>,
    metrics       |-> 0,
    models        |-> [m \in Range(MemberNames) |-> NoneModel],
    scaler        |-> NoneModel ]

SpendingInit ==
  [ BaseInit("spending_predictor") EXCEPT
      !.models = [m \in Range(MemberNames) |-> Unfitted],
      !.scaler = Unfitted,
      !.feature_names = SpendingFeatureNames ]

GoalInit ==
  [ BaseInit("goal_achievement_scorer") EXCEPT
      !.model = Unfitted,
      !.scaler = Unfitted,
      !.feature_names = GoalFeatureNames ]

NewInstance(c) == IF c = "spending_predictor" THEN SpendingInit ELSE GoalInit

IsSpending(o) == o.model_name = "spending_predictor"

\* ------------------------------------------------------------------- disk
\* One directory per path.  pkl maps a pickle file to the token it holds
\* (Absent when the file does not exist); json maps a model name to its
\* metadata record.
PklKinds == {"gbm", "rf", "ridge", "scaler", "blob"}
PklFiles == Classes \X PklKinds

NoMeta == [ present |-> FALSE, training_date |-> 0, metrics |-> 0,
            feature_names |-> <<>>, metadata |-> 0 ]

EmptyDir == [ pkl |-> [f \in PklFiles |-> Absent],
              json |-> [c \in Classes |-> NoMeta] ]

NoResult == <<>>

\* The observable outcome of the latest call: operation, instance, path,
\* outcome, numeric argument, a note on the call's precondition, the
\* returned value, is_trained before the call, and the vector argument.
Idle == [ op |-> "init", i |-> "", p |-> "", out |-> "ok", arg |-> 0,
          note |-> "", res |-> NoResult, was |-> FALSE, vec |-> <<>> ]

Result(op, i, out, was) == [ Idle EXCEPT !.op = op, !.i = i, !.out = out, !.was = was ]

\* ------------------------------------------------------------------ train
\* Variant of SpendingTrain whose length check is off by one (<=).
SpendingTrain_OffByOne(o, n) ==
  IF n <= MinTrainRows
    THEN [ o |-> o, out |-> "InsufficientData" ]
    ELSE [ o |-> [ o EXCEPT !.scaler = n,
                            !.models = [m \in Range(MemberNames) |-> n],
                            !.metrics = n,
                            !.is_trained = TRUE,
                            !.training_date = n,
                            !.metadata = n ],
           out |-> "ok" ]

\* SpendingPredictor.train on a zero-filled daily series of n rows (the
\* frame get_daily_spending_summary builds: no nulls, so dropna keeps all
\* n rows).  The length check precedes every mutation.  training_date
\* (datetime.now()) is abstracted to the tag of the run that set it.
SpendingTrain(o, n) ==
  IF n < MinTrainRows
    THEN [ o |-> o, out |-> "InsufficientData" ]
    ELSE [ o |-> [ o EXCEPT !.scaler = n,
                            !.models = [m \in Range(MemberNames) |-> n],
                            !.metrics = n,
                            !.is_trained = TRUE,
                            !.training_date = n,
                            !.metadata = n ],
           out |-> "ok" ]

\* GoalAchievementScorer.train on a table ds = [rows, cols, strat]:
\* cols   - the table carries every column of feature_names;
\* strat  - the outcomes admit the stratified split and 3-fold calibration.
\* The scaler is fitted before the split and the classifier fit.
GoalTrain(o, ds) ==
  IF ~ds.cols
    THEN [ o |-> o, out |-> "KeyError" ]
    ELSE IF ~ds.strat
      THEN [ o |-> [o EXCEPT !.scaler = ds.rows], out |-> "ValueError" ]
      ELSE [ o |-> [ o EXCEPT !.scaler = ds.rows,
                              !.model = ds.rows,
                              !.metrics = ds.rows,
                              !.is_trained = TRUE,
                              !.training_date = ds.rows,
                              !.metadata = ds.rows ],
             out |-> "ok" ]

\* GoalAchievementScorer.train_with_synthetic: 1000 seeded scenarios.
GoalTrainWithSynthetic(o) ==
  GoalTrain(o, [rows |-> SyntheticSamples, cols |-> TRUE, strat |-> TRUE])

\* ------------------------------------------------------------- save / load
MetaOf(o) ==
  [ present |-> TRUE, training_date |-> o.training_date,
    metrics |-> o.metrics, feature_names |-> o.feature_names,
    metadata |-> o.metadata ]

\* Variant of BaseSave without the untrained check.
BaseSave_NoCheck(o, d) ==
  [ d |-> [ pkl  |-> [d.pkl EXCEPT ![<<o.model_name, "blob">>] = o.model],
            json |-> [d.json EXCEPT ![o.model_name] = MetaOf(o)] ],
    out |-> "ok" ]

\* BasePredictor.save: the untrained check, then blob, then metadata.
BaseSave(o, d) ==
  IF ~o.is_trained
    THEN [ d |-> d, out |-> "Persistence" ]
    ELSE [ d |-> [ pkl  |-> [d.pkl EXCEPT ![<<o.model_name, "blob">>] = o.model],
                   json |-> [d.json EXCEPT ![o.model_name] = MetaOf(o)] ],
           out |-> "ok" ]

\* SpendingPredictor.save: members and scaler are written first, the
\* untrained check happens in the parent call at the end.
SpendingSave(o, d) ==
  LET d1 == [ d EXCEPT !.pkl =
                [ f \in PklFiles |->
                    IF f[1] = o.model_name /\ f[2] \in Range(MemberNames)
                      THEN o.models[f[2]]
                      ELSE IF f = <<o.model_name, "scaler">>
                        THEN o.scaler
                        ELSE d.pkl[f] ] ]
  IN  BaseSave(o, d1)

SaveOf(o, d) == IF IsSpending(o) THEN SpendingSave(o, d) ELSE BaseSave(o, d)

\* Variant of BaseLoad without the existence check on the blob.
BaseLoad_NoExistsCheck(o, d) ==
  LET meta == d.json[o.model_name]
      o1 == [o EXCEPT !.model = d.pkl[<<o.model_name, "blob">>]]
  IN  [ o |-> [ (IF meta.present
                   THEN [ o1 EXCEPT !.metrics = meta.metrics,
                                    !.feature_names = meta.feature_names,
                                    !.metadata = meta.metadata ]
                   ELSE o1) EXCEPT !.is_trained = TRUE ],
        out |-> "ok" ]

\* Variant of BaseLoad that resets metrics and feature_names when the
\* metadata file is missing.
BaseLoad_ResetsOnMissingMeta(o, d) ==
  LET blob == d.pkl[<<o.model_name, "blob">>]
      meta == d.json[o.model_name]
      o1 == [o EXCEPT !.model = blob]
      o2 == [ o1 EXCEPT
                !.metrics = meta.metrics,
                !.feature_names = meta.feature_names,
                !.metadata = meta.metadata,
                !.training_date = IF meta.training_date # 0
                                    THEN meta.training_date
                                    ELSE o1.training_date ]
  IN  IF blob = Absent
        THEN [ o |-> o, out |-> "FileNotFound" ]
        ELSE [ o |-> [o2 EXCEPT !.is_trained = TRUE], out |-> "ok" ]

\* BasePredictor.load.
BaseLoad(o, d) ==
  LET blob == d.pkl[<<o.model_name, "blob">>]
      meta == d.json[o.model_name]
      o1 == [o EXCEPT !.model = blob]
      o2 == IF meta.present
              THEN [ o1 EXCEPT
                       !.metrics = meta.metrics,
                       !.feature_names = meta.feature_names,
                       !.metadata = meta.metadata,
                       !.training_date = IF meta.training_date # 0
                                           THEN meta.training_date
                                           ELSE o1.training_date ]
              ELSE o1
  IN  IF blob = Absent
        THEN [ o |-> o, out |-> "FileNotFound" ]
        ELSE [ o |-> [o2 EXCEPT !.is_trained = TRUE], out |-> "ok" ]

\* The loop of SpendingPredictor.load over gbm, rf, ridge from position k:
\* each member file is opened in turn, the first missing one raises.
RECURSIVE LoadMembers(_, _, _)
LoadMembers(o, d, k) ==
  IF k > Len(MemberNames)
    THEN [ o |-> o, out |-> "ok" ]
    ELSE LET f == <<o.model_name, MemberNames[k]>>
         IN  IF d.pkl[f] = Absent
               THEN [ o |-> o, out |-> "FileNotFound" ]
               ELSE LoadMembers([o EXCEPT !.models[MemberNames[k]] = d.pkl[f]],
                                d, k + 1)

\* SpendingPredictor.load: members, scaler, then the parent load.
SpendingLoad(o, d) ==
  LET r1 == LoadMembers(o, d, 1)
      sc == d.pkl[<<o.model_name, "scaler">>]
  IN  IF r1.out # "ok"
        THEN r1
        ELSE IF sc = Absent
          THEN [ o |-> r1.o, out |-> "FileNotFound" ]
          ELSE BaseLoad([r1.o EXCEPT !.scaler = sc], d)

LoadOf(o, d) == IF IsSpending(o) THEN SpendingLoad(o, d) ELSE BaseLoad(o, d)

\* The pickle files load(path) of an instance of class c reads.
RequiredBlobs(c) ==
  IF c = "spending_predictor"
    THEN { <<c, k>> : k \in PklKinds }
    ELSE { <<c, "blob">> }

\* --------------------------------------------------------------- inference
Fitted(tok) == tok > Unfitted

\* Variant of SpendingPredict without the is_trained guard.
SpendingPredict_NoGuard(o, x) ==
  IF ~x.total_spent
    THEN [ out |-> "KeyError", res |-> NoResult ]
    ELSE IF ~Fitted(o.scaler) \/ \E m \in Range(MemberNames) : ~Fitted(o.models[m])
      THEN [ out |-> "NotFitted", res |-> NoResult ]
      ELSE [ out |-> "ok",
             res |-> << o.models["gbm"], o.models["rf"], o.models["ridge"],
                        o.scaler, x.id >> ]

\* SpendingPredictor.predict on a recent frame x = [id, total_spent]
\* (total_spent: the frame carries the total_spent column).  The result is
\* determined by the three members, the scaler and the frame.
SpendingPredict(o, x) ==
  IF ~o.is_trained
    THEN [ out |-> "ModelNotTrained", res |-> NoResult ]
    ELSE IF ~x.total_spent
      THEN [ out |-> "KeyError", res |-> NoResult ]
      ELSE IF ~Fitted(o.scaler) \/ \E m \in Range(MemberNames) : ~Fitted(o.models[m])
        THEN [ out |-> "NotFitted", res |-> NoResult ]
        ELSE [ out |-> "ok",
               res |-> << o.models["gbm"], o.models["rf"], o.models["ridge"],
                          o.scaler, x.id >> ]

\* GoalAchievementScorer.predict on goal x.id.
GoalPredict(o, x) ==
  IF ~o.is_trained
    THEN [ out |-> "ModelNotTrained", res |-> NoResult ]
    ELSE IF ~Fitted(o.scaler) \/ ~Fitted(o.model)
      THEN [ out |-> "NotFitted", res |-> NoResult ]
      ELSE [ out |-> "ok", res |-> << o.model, o.scaler, x.id >> ]

PredictOf(o, x) == IF IsSpending(o) THEN SpendingPredict(o, x) ELSE GoalPredict(o, x)

\* GoalAchievementScorer.predict_proba on a raw vector whose k-th value is
\* the feature named X[k]: scaler.transform checks the fit and the number
\* of columns, nothing looks at the order.  (BasePredictor.predict_proba,
\* which SpendingPredictor inherits, returns None.)
PredictProba(o, X) ==
  IF IsSpending(o)
    THEN [ out |-> "ok", res |-> NoResult ]
    ELSE IF ~Fitted(o.scaler)
      THEN [ out |-> "NotFitted", res |-> NoResult ]
      ELSE IF Len(X) # Len(GoalFeatureNames)
        THEN [ out |-> "ShapeError", res |-> NoResult ]
        ELSE IF ~Fitted(o.model)
          THEN [ out |-> "NotFitted", res |-> NoResult ]
          ELSE [ out |-> "ok", res |-> << o.model, o.scaler >> ]

\* BasePredictor.validate_input on X = [frame, cols]: only a DataFrame is
\* checked, and only for missing columns.
validate_input(o, X) ==
  IF X.frame /\ o.feature_names # <<>>
       /\ Range(o.feature_names) \ Range(X.cols) # {}
    THEN "MissingFeature"
    ELSE "ok"

\* Inference inputs: the vectors a caller may build from the names fn.
Swapped(fn) == [ k \in 1..Len(fn) |->
                   IF k = 1 THEN fn[2] ELSE IF k = 2 THEN fn[1] ELSE fn[k] ]

Vectors(fn) ==
  IF Len(fn) < 2 THEN { fn, fn \o <<"extra">> }
  ELSE { fn, Swapped(fn), Tail(fn), fn \o <<"extra">> }

AllVectors == Vectors(SpendingFeatureNames) \cup Vectors(GoalFeatureNames)

Frames == [ id : PredictInputs, total_spent : BOOLEAN ]

TrainRows == (MinTrainRows - RowSlack)..(MinTrainRows + RowSlack)

GoalTables == [ rows : {HistoryGoals}, cols : BOOLEAN, strat : BOOLEAN ]

\* ---------------------------------------------------------------- actions
\* The AIService object: its two predictors, whether its anomaly detector
\* holds a daily baseline ('daily' in stats), and the reply of the latest
\* request: status is the reply's status field ("none" when the reply
\* has no such field), raised the exception that escaped instead of a
\* reply, kind the reply's shape, items the status fields of the elements
\* of a list reply, keys the reply's other top-level fields.
NoReply == [ op |-> "init", arg |-> 0, was |-> FALSE, status |-> "none",
             raised |-> "", kind |-> "none", items |-> {}, keys |-> {},
             tagged |-> 0 ]

NoService == [ spending_predictor |-> SpendingInit, goal_scorer |-> GoalInit,
               stats_daily |-> FALSE, reply |-> NoReply ]

NoForecast == [ gbm |-> 0, rf |-> 0, ridge |-> 0, done |-> FALSE,
                prediction |-> 0, lower_bound |-> 0, upper_bound |-> 0 ]

NoOrig == BaseInit("")

\* No goal scored yet: gsc holds the latest goal-feature or goal-scoring call,
\* its input (target, current, deadline dl, elapsed) and its outputs.
NoDeadline == [ kind |-> "absent", days |-> 0 ]

NoGoal == [ op |-> "init", out |-> "", target |-> 0, current |-> 0,
            dl |-> NoDeadline, elapsed |-> 0, days_to_deadline |-> 0,
            req_num |-> 0, req_den |-> 1, on_track |-> 0,
            prob |-> 0, probability |-> 0, confidence_level |-> "" ]

\* AnomalyDetector.__init__: no statistics, outlier model not fitted.  The
\* statistics are kept as exact moments: n values, their sum and their sum
\* of squares (mean = sum/n, std = sqrt((n*sumsq - sum^2) / (n*(n-1)))).
NoStats == [ n |-> 0, sum |-> 0, sumsq |-> 0 ]

CategoryNames == {"food", "rent", "travel"}

NoBaseline == [ na |-> 0, xa |-> 0, ca |-> "food", nb |-> 0, xb |-> 0,
                cb |-> "food", same_day |-> FALSE ]

\* One row of detect_anomalies' output, with the label and flag the row had
\* after rule 1 and after rules 1-3, and whether it met the very-high and
\* the category condition; out is "ok" when the call returned.
NoRow == [ amount |-> 0, category_name |-> "food", time |-> "none",
           is_anomaly |-> FALSE, anomaly_type |-> "none",
           anomaly_reason |-> "none", type1 |-> "none", type3 |-> "none",
           very_high |-> FALSE, cat_high |-> FALSE, ml |-> FALSE,
           out |-> "ok" ]

NoDay == [ total |-> 0, is_anomaly |-> FALSE, severity |-> "none",
           reason |-> "none" ]

NoDetector ==
  [ op |-> "init", is_fitted |-> FALSE, has_stats |-> FALSE, rows |-> 0,
    base |-> NoBaseline, fits |-> 0, stats_on |-> <<>>, model_on |-> <<>>,
    amount |-> NoStats, q1x4 |-> 0, q3x4 |-> 0, median_x2 |-> 0,
    daily |-> NoStats,
    categories |-> [c \in CategoryNames |-> NoStats],
    row |-> NoRow, day |-> NoDay ]

\* A table handed to the analyzer, by the number of its rows of each kind:
\* untagged rows (no emotion), tagged rows, and among the tagged ones the
\* rows with a risk emotion (impulsive, bored, tired), with a negative
\* emotion, marked unnecessary, with stress_level >= 7, with regret_level
\* >= 7 and with a lower regret_level; emotion_col tells whether the frame
\* has the emotion columns at all, rebuy_col whether it has would_buy_again.
\* absent holds the other optional annotation columns the frame lacks;
\* planned, stressed and impulse count the tagged rows whose emotion is
\* exactly 'planned', 'stressed' and 'impulsive'; highest is the emotion with
\* the largest total, trigger_over tells whether the top trigger's total
\* exceeds 100 and late whether the peak time of day is 'late_night'.
NoTable == [ untagged |-> 0, tagged |-> 0, impulsive |-> 0, negative |-> 0,
             unnecessary |-> 0, high_stress |-> 0, high_regret |-> 0,
             low_regret |-> 0, emotion_col |-> FALSE, rebuy_col |-> FALSE,
             absent |-> {}, planned |-> 0, stressed |-> 0, impulse |-> 0,
             highest |-> "neutral", trigger_over |-> FALSE, late |-> FALSE ]

\* EmotionalPatternAnalyzer.__init__: nothing analysed (self.patterns = {}).
\* emo holds the table of the call to come, the latest call's outcome, the
\* persona held by self.patterns and the persona the previous call returned.
NoAnalysis == [ op |-> "init", out |-> "", ds |-> NoTable, kind |-> "none",
                risk_score |-> 0, breakdowns |-> 0,
                recommendations |-> <<>>, persona |-> "none",
                regret_summary |-> FALSE,
                patterns_persona |-> "none", prev_persona |-> "none" ]

\* The time-feature columns of a frame that does not carry them.
NoTimeFeatures ==
  [ day_of_week |-> 0, day_of_month |-> 0, week_of_year |-> 0, month |-> 0,
    quarter |-> 0, year |-> 0, is_weekend |-> 0, is_month_start |-> 0,
    is_month_end |-> 0, is_payday |-> 0 ]

\* A frame for create_time_features: whether it has the date column and
\* the time-feature columns, and its rows (date as the day of 2024, f the
\* values of the time-feature columns).
NoFrame == [ has_date |-> FALSE, has_features |-> FALSE, rows |-> <<>> ]

\* No create_time_features call yet: tf holds the frame as the caller built
\* it (given), the caller's frame object (df) and the frames returned by the
\* first call, by a second call on df and by a call on the first result.
NoFeatureCall ==
  [ op |-> "init", out |-> "", given |-> NoFrame, df |-> NoFrame,
    first |-> NoFrame, second |-> NoFrame, nested |-> NoFrame ]

\* The process-wide numpy generator (the position in its stream since the
\* last seed) and, per user, the state of that user's goal scorer.
Users == {"u1", "u2"}

NoProcess ==
  [ rng |-> 0,
    pc |-> [u \in Users |-> "idle"],
    drawn |-> [u \in Users |-> <<>>],
    trained_on |-> [u \in Users |-> <<>>] ]

\* No forecast yet: rec holds the predictor's fitted members (w, 0 before
\* training), the training pairs of train, the recent frame as the caller
\* built it (given) and the caller's frame object (df), the horizon H,
\* and for the running predict call the steps done (i), the working
\* buffer (buf), the feature row each step handed to the members (used)
\* and the four result lists.
NoRecursion ==
  [ op |-> "init", out |-> "", is_trained |-> FALSE, w |-> 0, pairs |-> <<>>,
    given |-> <<>>, df |-> <<>>, H |-> 0, i |-> 0, last_date |-> 0,
    buf |-> <<>>, used |-> <<>>, dates |-> <<>>, predictions |-> <<>>,
    lower_bounds |-> <<>>, upper_bounds |-> <<>> ]

Init ==
  /\ \E c \in Classes : inst = [i \in Inst |-> NewInstance(c)]
  /\ disk = [p \in Paths |-> EmptyDir]
  /\ last = Idle
  /\ removed = 0
  /\ orig = NoOrig
  /\ trip = "none"
  /\ svc = NoService
  /\ fc = NoForecast
  /\ gsc = NoGoal
  /\ det = NoDetector
  /\ emo = NoAnalysis
  /\ tf = NoFeatureCall
  /\ par = NoProcess
  /\ rec = NoRecursion

\* trip follows a round trip: "saved" after a successful save (orig keeps
\* the saving instance as its caller still holds it), "fresh" once a new
\* instance of the same class was constructed right after, "loaded" once
\* that instance loaded the same path right after; anything else ends it.
Untrip == /\ trip' = "none"
          /\ orig' = NoOrig

\* A new instance of the same class replaces the live one.  (Artifact
\* file names carry the model name, so the classes never touch each
\* other's files: a behaviour follows one class, chosen in Init.)
Construct(i, c) ==
  /\ c = inst[i].model_name
  /\ inst' = [inst EXCEPT ![i] = NewInstance(c)]
  /\ last' = Result("construct", i, "ok", inst[i].is_trained)
  /\ trip' = IF trip = "saved" THEN "fresh" ELSE "none"
  /\ orig' = IF trip = "saved" THEN orig ELSE NoOrig
  /\ UNCHANGED <<disk, removed, others>>

Train(i, n) ==
  /\ IsSpending(inst[i])
  /\ LET r == SpendingTrain(inst[i], n)
     IN  /\ inst' = [inst EXCEPT ![i] = r.o]
         /\ last' = [ Result("train", i, r.out, inst[i].is_trained)
                        EXCEPT !.arg = n ]
  /\ Untrip
  /\ UNCHANGED <<disk, removed, others>>

TrainGoal(i, ds) ==
  /\ ~IsSpending(inst[i])
  /\ LET r == GoalTrain(inst[i], ds)
     IN  /\ inst' = [inst EXCEPT ![i] = r.o]
         /\ last' = [ Result("train", i, r.out, inst[i].is_trained)
                        EXCEPT !.arg = ds.rows,
                               !.note = IF ~ds.cols THEN "no_columns"
                                        ELSE IF ~ds.strat THEN "no_split" ELSE "" ]
  /\ Untrip
  /\ UNCHANGED <<disk, removed, others>>

TrainWithSynthetic(i) ==
  /\ ~IsSpending(inst[i])
  /\ LET r == GoalTrainWithSynthetic(inst[i])
     IN  /\ inst' = [inst EXCEPT ![i] = r.o]
         /\ last' = [ Result("train_with_synthetic", i, r.out, inst[i].is_trained)
                        EXCEPT !.arg = SyntheticSamples ]
  /\ Untrip
  /\ UNCHANGED <<disk, removed, others>>

Save(i, p) ==
  /\ LET r == SaveOf(inst[i], disk[p])
     IN  /\ disk' = [disk EXCEPT ![p] = r.d]
         /\ last' = [ Result("save", i, r.out, inst[i].is_trained)
                        EXCEPT !.p = p ]
         /\ trip' = IF r.out = "ok" THEN "saved" ELSE "none"
         /\ orig' = IF r.out = "ok" THEN inst[i] ELSE NoOrig
  /\ UNCHANGED <<inst, removed, others>>

LoadNote(o, d) ==
  IF \E f \in RequiredBlobs(o.model_name) : d.pkl[f] = Absent
    THEN "blob_missing"
    ELSE IF ~d.json[o.model_name].present THEN "meta_missing" ELSE "complete"

Load(i, p) ==
  /\ LET r == LoadOf(inst[i], disk[p])
     IN  /\ inst' = [inst EXCEPT ![i] = r.o]
         /\ last' = [ Result("load", i, r.out, inst[i].is_trained)
                        EXCEPT !.p = p, !.note = LoadNote(inst[i], disk[p]) ]
  /\ trip' = IF trip = "fresh" THEN "loaded" ELSE "none"
  /\ orig' = IF trip = "fresh" THEN orig ELSE NoOrig
  /\ UNCHANGED <<disk, removed, others>>

Predict(i, x) ==
  /\ LET r == PredictOf(inst[i], x)
     IN  last' = [ Result("predict", i, r.out, inst[i].is_trained)
                     EXCEPT !.arg = x.id, !.res = r.res,
                            !.note = IF x.total_spent THEN "" ELSE "no_total_spent" ]
  /\ Untrip
  /\ UNCHANGED <<inst, disk, removed, others>>

VectorNote(o, X) ==
  IF X = o.feature_names THEN "matches"
  ELSE IF Len(X) # Len(o.feature_names) THEN "length_differs"
  ELSE "order_differs"

CallPredictProba(i, X) ==
  /\ X \in Vectors(inst[i].feature_names)
  /\ LET r == PredictProba(inst[i], X)
     IN  last' = [ Result("predict_proba", i, r.out, inst[i].is_trained)
                     EXCEPT !.res = r.res, !.vec = X,
                            !.note = VectorNote(inst[i], X) ]
  /\ Untrip
  /\ UNCHANGED <<inst, disk, removed, others>>

ValidateInput(i, X) ==
  /\ X.cols \in Vectors(inst[i].feature_names)
  /\ last' = [ Result("validate_input", i, validate_input(inst[i], X),
                      inst[i].is_trained)
                 EXCEPT !.vec = X.cols,
                        !.note = IF X.frame THEN "frame" ELSE "array" ]
  /\ Untrip
  /\ UNCHANGED <<inst, disk, removed, others>>

\* The environment removes an artifact file (a deployment that ships the
\* blob without its sibling, a cleaned cache).
RemoveFile(p, f) ==
  /\ removed < MaxRemovals
  /\ disk[p].pkl[f] # Absent
  /\ disk' = [disk EXCEPT ![p].pkl[f] = Absent]
  /\ removed' = removed + 1
  /\ last' = [ Result("remove", "", "ok", FALSE) EXCEPT !.p = p ]
  /\ Untrip
  /\ UNCHANGED <<inst, others>>

RemoveMeta(p, c) ==
  /\ removed < MaxRemovals
  /\ disk[p].json[c].present
  /\ disk' = [disk EXCEPT ![p].json[c] = NoMeta]
  /\ removed' = removed + 1
  /\ last' = [ Result("remove", "", "ok", FALSE) EXCEPT !.p = p ]
  /\ Untrip
  /\ UNCHANGED <<inst, others>>

Next ==
  \/ \E i \in Inst, c \in Classes : Construct(i, c)
  \/ \E i \in Inst, n \in TrainRows : Train(i, n)
  \/ \E i \in Inst, ds \in GoalTables : TrainGoal(i, ds)
  \/ \E i \in Inst : TrainWithSynthetic(i)
  \/ \E i \in Inst, p \in Paths : Save(i, p)
  \/ \E i \in Inst, p \in Paths : Load(i, p)
  \/ \E i \in Inst, x \in Frames : Predict(i, x)
  \/ \E i \in Inst, X \in AllVectors : CallPredictProba(i, X)
  \/ \E i \in Inst, X \in [frame : BOOLEAN, cols : AllVectors] : ValidateInput(i, X)
  \/ \E p \in Paths, f \in PklFiles : RemoveFile(p, f)
  \/ \E p \in Paths, c \in Classes : RemoveMeta(p, c)

Spec == Init /\ [][Next]_vars

\* ----------------------------------------------------- lifecycle properties
Live == inst["a"]

\* C1: predict returns a forecast or score only if is_trained is true, and
\* on an instance whose is_trained is false it fails with the
\* model-not-trained error and returns no result, whatever train, save and
\* load calls (failed ones included) came before.
C1_PredictRequiresTrained ==
  last.op = "predict" =>
    /\ (last.out = "ok" => last.was /\ last.res # NoResult)
    /\ (~last.was => last.out = "ModelNotTrained" /\ last.res = NoResult)

\* C1 witness: predict was refused on an untrained instance while the
\* directory already holds artifact files of earlier save calls.
C1_Witness ==
  /\ last.op = "predict"
  /\ ~last.was
  /\ last.out = "ModelNotTrained"
  /\ \E p \in Paths : disk[p] # EmptyDir

\* C2: after save(path) and load(path) on a fresh instance of the same
\* class, load has succeeded and predict on the loaded instance returns
\* exactly what the original instance returns, for every input on which
\* the original predicts.
C2_RoundTripReproducesPredict ==
  trip = "loaded" =>
    /\ last.out = "ok"
    /\ \A x \in Frames :
         PredictOf(orig, x).out = "ok" => PredictOf(Live, x) = PredictOf(orig, x)

\* C3: load on a directory where a model blob the class reads is missing
\* fails, and an instance that was untrained before is untrained after.
C3_LoadMissingBlobFails ==
  (last.op = "load" /\ last.note = "blob_missing") =>
    /\ last.out = "FileNotFound"
    /\ (~last.was => ~inst[last.i].is_trained)

\* C3 witness: a load failed on an untrained instance in a directory that
\* holds some, but not all, of the artifact files.
C3_Witness ==
  /\ last.op = "load"
  /\ last.note = "blob_missing"
  /\ ~last.was
  /\ disk[last.p] # EmptyDir
  /\ ~inst[last.i].is_trained

\* C4: save on an instance whose is_trained is false fails with the
\* persistence error instead of returning a location.
C4_SaveUntrainedFails ==
  (last.op = "save" /\ ~last.was) => last.out = "Persistence"

\* C4 witness: a save was refused on an untrained instance.
C4_Witness ==
  last.op = "save" /\ ~last.was /\ last.out = "Persistence"

\* C5 as claimed: with the blob present and the metadata sibling missing,
\* load succeeds, marks the instance trained and leaves it with empty
\* metrics and an empty feature_names list.
C5_MissingMetaLeavesEmpty ==
  (last.op = "load" /\ last.note = "meta_missing") =>
    /\ last.out = "ok"
    /\ inst[last.i].is_trained
    /\ inst[last.i].metrics = 0
    /\ inst[last.i].feature_names = <<>>

\* C5 amended: with the blob present and the metadata sibling missing,
\* load succeeds, marks the instance trained and leaves metrics and
\* feature_names as they were before the call.
C5_MissingMetaKeepsFields ==
  [][ (last'.op = "load" /\ last'.note = "meta_missing") =>
        /\ last'.out = "ok"
        /\ inst'[last'.i].is_trained
        /\ inst'[last'.i].metrics = inst[last'.i].metrics
        /\ inst'[last'.i].feature_names = inst[last'.i].feature_names ]_vars

\* C5 witness: a load without metadata succeeded on an instance that
\* still carries its constructor's feature names.
C5_Witness ==
  /\ last.op = "load"
  /\ last.note = "meta_missing"
  /\ last.out = "ok"
  /\ inst[last.i].is_trained
  /\ inst[last.i].feature_names # <<>>

\* C7: SpendingPredictor.train fails with the insufficient-data error
\* exactly when the daily series has fewer than 60 rows; with 60 or more
\* it fits the three members and the scaler and sets is_trained.
C7_TrainThreshold ==
  (last.op = "train" /\ IsSpending(inst[last.i])) =>
    /\ (last.out = "InsufficientData" <=> last.arg < 60)
    /\ (last.arg >= 60 =>
          /\ last.out = "ok"
          /\ inst[last.i].is_trained
          /\ inst[last.i].scaler = last.arg
          /\ \A m \in Range(MemberNames) : inst[last.i].models[m] = last.arg)

\* C7 witness: training on exactly 60 rows succeeded.
C7_Witness ==
  /\ last.op = "train"
  /\ IsSpending(inst[last.i])
  /\ last.arg = 60
  /\ last.out = "ok"
  /\ inst[last.i].is_trained

\* ---------------------------------------------------------------- AIService
StatusValues == {"success", "insufficient_data", "no_data", "error"}

\* Lengths of the daily series get_daily_spending_summary returns.
HistoryLens ==
  {0} \cup ((MinPredictRows - RowSlack)..(MinPredictRows + RowSlack)) \cup TrainRows

\* The expense table get_user_expenses returns: n rows, of which tagged
\* carry an emotion annotation (the emotion columns exist only if some row
\* is tagged; would_buy_again is never among them) and reflected tells
\* whether some tagged row has a regret_level.  month_n and month_tagged
\* count the rows of the month a monthly report asks for.
ExpenseTables ==
  { e \in [ n : 0..MaxExpenses, tagged : 0..MaxExpenses, reflected : BOOLEAN,
            month_n : 0..MaxExpenses, month_tagged : 0..MaxExpenses ] :
      /\ e.tagged <= e.n
      /\ e.month_n <= e.n
      /\ e.month_tagged <= e.month_n
      /\ e.month_tagged <= e.tagged
      /\ (e.reflected => e.tagged > 0) }

\* The artifact directories a deployment may ship under AI_MODELS_PATH:
\* nothing, or what save wrote for a trained predictor.
ShippedDirs ==
  { EmptyDir }
    \cup { SaveOf(SpendingTrain(SpendingInit, n).o, EmptyDir).d :
             n \in { r \in TrainRows : r >= MinTrainRows } }
    \cup { SaveOf(GoalTrainWithSynthetic(GoalInit).o, EmptyDir).d }

DirExists(d) == d # EmptyDir

\* AIService._load_models for one predictor: load if the directory exists,
\* any exception is logged and swallowed.
LoadIfShipped(o, d) == IF DirExists(d) THEN LoadOf(o, d).o ELSE o

Reply(op, status) == [ NoReply EXCEPT !.op = op, !.status = status, !.kind = "mapping" ]

\* EmotionalPatternAnalyzer.analyze seen from its caller, on a table of n
\* rows of which tagged are emotion-tagged:
\* "empty" (_empty_analysis), "patterns", or the exception it raises.
AnalyzeOutcome(n, tagged, hasEmotionColumn, reflected) ==
  IF n = 0 THEN "empty"
  ELSE IF ~hasEmotionColumn THEN "KeyError"
  ELSE IF tagged = 0 THEN "empty"
  ELSE IF reflected THEN "KeyError"
  ELSE "patterns"

InitService ==
  /\ inst = [i \in Inst |-> SpendingInit]
  /\ disk \in [Paths -> ShippedDirs]
  /\ last = Idle
  /\ removed = 0
  /\ orig = NoOrig
  /\ trip = "none"
  /\ svc = NoService
  /\ fc = NoForecast
  /\ gsc = NoGoal
  /\ det = NoDetector
  /\ emo = NoAnalysis
  /\ tf = NoFeatureCall
  /\ par = NoProcess
  /\ rec = NoRecursion

serviceFrame ==
  <<inst, disk, last, removed, orig, trip, fc, gsc, det, emo, tf, par, rec>>

\* AIService.__init__ (one per request): fresh components, then _load_models.
ServiceStart(p) ==
  /\ svc' = [ spending_predictor |-> LoadIfShipped(SpendingInit, disk[p]),
              goal_scorer |-> LoadIfShipped(GoalInit, disk[p]),
              stats_daily |-> FALSE,
              reply |-> [NoReply EXCEPT !.op = "start"] ]
  /\ UNCHANGED serviceFrame

\* AIService.predict_spending on a daily series of h rows.
PredictSpendingResult(sp, h) ==
  LET tr == IF sp.is_trained THEN [o |-> sp, out |-> "ok"] ELSE SpendingTrain(sp, h)
      pr == SpendingPredict(tr.o, [id |-> 1, total_spent |-> TRUE])
  IN  IF h = 0 \/ h < MinPredictRows
        THEN [ o |-> sp, status |-> "insufficient_data" ]
        ELSE IF tr.out # "ok"
          THEN [ o |-> tr.o, status |-> "error" ]
          ELSE IF pr.out # "ok"
            THEN [ o |-> tr.o, status |-> "error" ]
            ELSE [ o |-> tr.o, status |-> "success" ]

PredictSpending(h) ==
  /\ LET r == PredictSpendingResult(svc.spending_predictor, h)
     IN  svc' = [ svc EXCEPT
                    !.spending_predictor = r.o,
                    !.reply = [ Reply("predict_spending", r.status) EXCEPT
                                  !.arg = h,
                                  !.was = svc.spending_predictor.is_trained ] ]
  /\ UNCHANGED serviceFrame

\* AIService.score_goal.
ScoreGoalResult(gs) ==
  LET tr == IF gs.is_trained THEN [o |-> gs, out |-> "ok"] ELSE GoalTrainWithSynthetic(gs)
      pr == GoalPredict(tr.o, [id |-> 1, total_spent |-> TRUE])
  IN  IF tr.out # "ok"
        THEN [ o |-> tr.o, status |-> "error" ]
        ELSE IF pr.out # "ok"
          THEN [ o |-> tr.o, status |-> "error" ]
          ELSE [ o |-> tr.o, status |-> "success" ]

ScoreGoal ==
  /\ LET r == ScoreGoalResult(svc.goal_scorer)
     IN  svc' = [ svc EXCEPT
                    !.goal_scorer = r.o,
                    !.reply = [ Reply("score_goal", r.status) EXCEPT
                                  !.was = svc.goal_scorer.is_trained ] ]
  /\ UNCHANGED serviceFrame

\* AIService.score_all_goals for a user with k active goals: a list with
\* one score_goal reply per goal, the empty list without goals.
ScoreAllGoals(k) ==
  /\ LET r == ScoreGoalResult(svc.goal_scorer)
     IN  svc' = [ svc EXCEPT
                    !.goal_scorer = IF k = 0 THEN @ ELSE r.o,
                    !.reply = [ NoReply EXCEPT
                                  !.op = "score_all_goals",
                                  !.arg = k,
                                  !.kind = "list",
                                  !.items = IF k = 0 THEN {} ELSE {r.status},
                                  !.was = svc.goal_scorer.is_trained ] ]
  /\ UNCHANGED serviceFrame

\* AIService.detect_anomalies.
DetectAnomalies(e) ==
  /\ svc' = [ svc EXCEPT
                !.stats_daily = IF e.n = 0 THEN @ ELSE TRUE,
                !.reply = [ Reply("detect_anomalies",
                                  IF e.n = 0 THEN "no_data" ELSE "success")
                              EXCEPT !.arg = e.n ] ]
  /\ UNCHANGED serviceFrame

\* AIService.check_daily_anomaly: both replies are returned as built by
\* the detector, without a status field.
CheckDailyAnomaly(e) ==
  /\ svc' = [ svc EXCEPT
                !.stats_daily = IF e.n = 0 THEN @ ELSE TRUE,
                !.reply = [ NoReply EXCEPT
                              !.op = "check_daily_anomaly",
                              !.arg = e.n,
                              !.kind = "mapping",
                              !.keys = IF e.n = 0
                                         THEN {"is_anomaly", "reason"}
                                         ELSE {"is_anomaly", "z_score", "reason",
                                               "severity", "comparison"} ] ]
  /\ UNCHANGED serviceFrame

\* AIService.analyze_emotional_patterns.
AnalyzeEmotionalPatterns(e) ==
  /\ LET a == AnalyzeOutcome(e.n, e.tagged, e.tagged > 0, e.reflected)
     IN  svc' = [ svc EXCEPT
                    !.reply =
                      IF e.n = 0
                        THEN [ Reply("analyze_emotional_patterns", "no_data")
                                 EXCEPT !.keys = {"message", "recommendations"} ]
                        ELSE IF a = "KeyError"
                          THEN [ NoReply EXCEPT !.op = "analyze_emotional_patterns",
                                                !.arg = e.n, !.raised = a ]
                          ELSE [ Reply("analyze_emotional_patterns", "success")
                                   EXCEPT !.arg = e.n, !.tagged = e.tagged,
                                          !.keys = {"risk_score", "period_days"} ] ]
  /\ UNCHANGED serviceFrame

\* AIService.get_monthly_emotional_report.
MonthlyReport(e) ==
  /\ LET a == AnalyzeOutcome(e.month_n, e.month_tagged, e.tagged > 0,
                             e.reflected /\ e.month_tagged > 0)
     IN  svc' = [ svc EXCEPT
                    !.reply =
                      IF e.n = 0
                        THEN Reply("get_monthly_emotional_report", "no_data")
                        ELSE IF a = "KeyError"
                          THEN [ NoReply EXCEPT !.op = "get_monthly_emotional_report",
                                                !.arg = e.n, !.raised = a ]
                          ELSE [ Reply("get_monthly_emotional_report", "success")
                                   EXCEPT !.arg = e.n, !.tagged = e.month_tagged,
                                          !.keys = {"risk_score", "month",
                                                    "total_transactions"} ] ]
  /\ UNCHANGED serviceFrame

NextService ==
  \/ \E p \in Paths : ServiceStart(p)
  \/ \E h \in HistoryLens : PredictSpending(h)
  \/ ScoreGoal
  \/ \E k \in 0..MaxGoals : ScoreAllGoals(k)
  \/ \E e \in ExpenseTables : DetectAnomalies(e)
  \/ \E e \in ExpenseTables : CheckDailyAnomaly(e)
  \/ \E e \in ExpenseTables : AnalyzeEmotionalPatterns(e)
  \/ \E e \in ExpenseTables : MonthlyReport(e)

SpecService == InitService /\ [][NextService]_vars

\* -------------------------------------------------------- forecast interval
\* One pass of the loop body of SpendingPredictor.predict on the member
\* predictions g (gbm), r (rf), l (ridge), whole dollars; results in cents.
\* np.std is the population deviation: with s = g + r + l its square is
\* S / 27 for S = (3g-s)^2 + (3r-s)^2 + (3l-s)^2, so 1.96 * std in cents is
\* the square root of 196^2 * S / 27, taken to the nearest cent as
\* round(.., 2) does.
RECURSIVE SqrtSearch(_, _, _)
SqrtSearch(q, lo, hi) ==
  IF lo >= hi THEN lo
  ELSE LET mid == (lo + hi + 1) \div 2
       IN  IF mid * mid <= q THEN SqrtSearch(q, mid, hi)
                             ELSE SqrtSearch(q, lo, mid - 1)

ISqrt(q) == SqrtSearch(q, 0, 46340)

RoundSqrt(q) == LET r == ISqrt(q) IN IF q > r * r + r THEN r + 1 ELSE r

Max(a, b) == IF a >= b THEN a ELSE b

WeightedMeanCents(g, r, l) == 40 * g + 40 * r + 20 * l

SpreadCents(g, r, l) ==
  LET s == g + r + l
      S == (3*g - s) * (3*g - s) + (3*r - s) * (3*r - s) + (3*l - s) * (3*l - s)
  IN  RoundSqrt((196 * 196 * S) \div 27)

Interval(g, r, l) ==
  LET pred == WeightedMeanCents(g, r, l)
      w    == SpreadCents(g, r, l)
  IN  [ prediction  |-> pred,
        lower_bound |-> Max(0, pred - w),
        upper_bound |-> pred + w ]

Members == (0 - MaxMember)..MaxMember

InitInterval ==
  /\ inst = [i \in Inst |-> SpendingInit]
  /\ disk = [p \in Paths |-> EmptyDir]
  /\ last = Idle
  /\ removed = 0
  /\ orig = NoOrig
  /\ trip = "none"
  /\ svc = NoService
  /\ gsc = NoGoal
  /\ det = NoDetector
  /\ emo = NoAnalysis
  /\ tf = NoFeatureCall
  /\ par = NoProcess
  /\ rec = NoRecursion
  /\ \E g \in Members, r \in Members, l \in Members :
       fc = [ NoForecast EXCEPT !.gbm = g, !.rf = r, !.ridge = l ]

\* The forecast of one day from the three member predictions.
ForecastDay ==
  /\ ~fc.done
  /\ LET v == Interval(fc.gbm, fc.rf, fc.ridge)
     IN  fc' = [ fc EXCEPT !.done = TRUE,
                           !.prediction = v.prediction,
                           !.lower_bound = v.lower_bound,
                           !.upper_bound = v.upper_bound ]
  /\ UNCHANGED <<inst, disk, last, removed, orig, trip, svc, gsc, det, emo,
                 tf, par, rec>>

NextInterval == ForecastDay

SpecInterval == InitInterval /\ [][NextInterval]_vars

\* ------------------------------------------- inference and service properties
\* C6: every inference call checks its input against feature_names first:
\* a vector whose length or order differs from feature_names is rejected
\* with the missing-feature error and never scored (stated for the raw
\* vector entry point, predict_proba, on a fitted scorer).
C6_InferenceRejectsMismatch ==
  (last.op = "predict_proba" /\ ~IsSpending(inst[last.i])
     /\ Fitted(inst[last.i].scaler) /\ Fitted(inst[last.i].model)
     /\ last.note # "matches")
    => (last.out = "MissingFeature" /\ last.res = NoResult)

\* C8: with fewer than 60 days of history and no trained model,
\* predict_spending replies with status "insufficient_data".
C8_ShortHistoryIsInsufficientData ==
  (svc.reply.op = "predict_spending" /\ svc.reply.arg < MinTrainRows
     /\ ~svc.reply.was)
    => svc.reply.status = "insufficient_data"

\* C9: every reply of a component operation carries a status field with
\* one of the four values, and an analysis of a dataset without
\* emotion-tagged rows has status "no_data".
C9_EveryReplyHasStatus ==
  (svc.reply.op \notin {"init", "start"} /\ svc.reply.raised = "") =>
    /\ svc.reply.status \in StatusValues
    /\ (svc.reply.op \in {"analyze_emotional_patterns",
                          "get_monthly_emotional_report"}
          /\ svc.reply.tagged = 0)
         => svc.reply.status = "no_data"

\* C10: for every forecast day and every triple of member predictions,
\* lower_bound <= prediction <= upper_bound and lower_bound >= 0.
C10_IntervalBracketsPrediction ==
  fc.done =>
    /\ fc.lower_bound <= fc.prediction
    /\ fc.prediction <= fc.upper_bound
    /\ fc.lower_bound >= 0

\* ============================================================ goal features
\* Amounts are whole currency units, days are whole days relative to
\* date.today(); a probability is the integer prob with value prob/ProbScale;
\* a reported percentage is held in tenths of a percent.
MaxAmount == 3
MaxDays == 2
ProbSlack == 6

ProbScale == 10000
DefaultDays == 365
FrameDefaultDays == 365

\* A goal: target and current amount, the deadline (kind "absent": no
\* deadline field or column; "null": None / NaT; "date": today + days) and
\* the days since created_at.
Deadlines ==
  { [kind |-> "absent", days |-> 0], [kind |-> "null", days |-> 0] }
    \cup { [kind |-> "date", days |-> d] : d \in (0 - MaxDays)..MaxDays }

Goals ==
  [ target : 0..MaxAmount, current : 0..MaxAmount, dl : Deadlines,
    elapsed : 0..MaxDays ]

\* The probabilities tried: every value within ProbSlack/ProbScale of a band
\* threshold or of an end of [0,1], except the values halfway between two
\* tenths of a percent, whose rounding depends on the binary float.
Thresholds == { 0, 2000, 4000, 6000, 8000, ProbScale }

Probs ==
  { q \in 0..ProbScale :
      /\ \E t \in Thresholds : q - t <= ProbSlack /\ t - q <= ProbSlack
      /\ q % 10 # 5 }

\* The on_track rule of _calculate_features.  completion_rate is
\* current/target (0 when target is 0), compared without division.
OnTrack(target, current, elapsed, days) ==
  IF elapsed > 0 /\ days > 0
    THEN IF target > 0
           THEN (IF current * (elapsed + days) >= elapsed * target THEN 1 ELSE 0)
           ELSE 0
    ELSE IF target > 0 /\ current > 0 THEN 1 ELSE 0

\* GoalAchievementScorer._calculate_features (the deadline and progress
\* features).  required_daily_savings is the fraction req_num/req_den.
CalculateFeatures(g) ==
  LET days == IF g.dl.kind = "date"
                THEN Max(0, g.dl.days) ELSE DefaultDays
      remaining == g.target - g.current
  IN  [ out |-> "ok", days_to_deadline |-> days,
        req_num |-> remaining,
        req_den |-> IF days > 0 THEN days ELSE 1,
        on_track |-> OnTrack(g.target, g.current, g.elapsed, days) ]

\* FeatureEngineer.create_goal_features on a one-row frame: without a
\* deadline_date column days_to_deadline is never created and the
\* required_daily_savings step raises KeyError.
CreateGoalFeatures(g) ==
  IF g.dl.kind = "absent"
    THEN [ out |-> "KeyError", days_to_deadline |-> 0, req_num |-> 0,
           req_den |-> 1, on_track |-> 0 ]
    ELSE LET raw == IF g.dl.kind = "date" THEN g.dl.days ELSE FrameDefaultDays
             days == Max(0, raw)
         IN  [ out |-> "ok", days_to_deadline |-> days,
               req_num |-> g.target - g.current,
               req_den |-> IF days > 0 THEN days ELSE 1,
               on_track |-> 0 ]

\* One scenario of train_with_synthetic: days_elapsed < total_days, so
\* days_remaining >= 1; on_track_indicator = int(actual_rate >= expected_rate)
\* with actual_rate = current/target and expected_rate = elapsed/total.
SyntheticFeatures(target, current, total, elapsed) ==
  [ out |-> "ok", days_to_deadline |-> total - elapsed,
    req_num |-> target - current, req_den |-> total - elapsed,
    on_track |-> IF current * total >= elapsed * target THEN 1 ELSE 0 ]

\* round(prob * 100, 1) in tenths of a percent: the nearest tenth.
RoundTenths(q) == IF q % 10 < 5 THEN q \div 10 ELSE (q \div 10) + 1

\* GoalAchievementScorer._get_confidence_level, on the unrounded prob.
GetConfidenceLevel(q) ==
  IF q * 10 >= 8 * ProbScale THEN "Very Likely"
  ELSE IF q * 10 >= 6 * ProbScale THEN "Likely"
  ELSE IF q * 10 >= 4 * ProbScale THEN "Uncertain"
  ELSE IF q * 10 >= 2 * ProbScale THEN "Unlikely"
  ELSE "Very Unlikely"

GoalCall(op, g, f) ==
  [ g EXCEPT !.op = op, !.out = f.out,
             !.days_to_deadline = f.days_to_deadline,
             !.req_num = f.req_num, !.req_den = f.req_den,
             !.on_track = f.on_track ]

GoalOf(g) == [ target |-> g.target, current |-> g.current, dl |-> g.dl,
               elapsed |-> g.elapsed ]

goalFrame ==
  <<inst, disk, last, removed, orig, trip, svc, fc, det, emo, tf, par, rec>>

\* The scorer the service holds after its cold start, and the goal and the
\* classifier output of the call to come.
InitGoal ==
  /\ inst = [i \in Inst |-> GoalTrainWithSynthetic(GoalInit).o]
  /\ disk = [p \in Paths |-> EmptyDir]
  /\ last = Idle
  /\ removed = 0
  /\ orig = NoOrig
  /\ trip = "none"
  /\ svc = NoService
  /\ fc = NoForecast
  /\ \E g \in Goals, q \in Probs :
       gsc = [ NoGoal EXCEPT !.target = g.target, !.current = g.current,
                             !.dl = g.dl, !.elapsed = g.elapsed, !.prob = q ]
  /\ det = NoDetector
  /\ emo = NoAnalysis
  /\ tf = NoFeatureCall
  /\ par = NoProcess
  /\ rec = NoRecursion

CallCalculateFeatures ==
  /\ gsc.op = "init"
  /\ gsc' = GoalCall("calculate_features", gsc, CalculateFeatures(GoalOf(gsc)))
  /\ UNCHANGED goalFrame

CallCreateGoalFeatures ==
  /\ gsc.op = "init"
  /\ gsc' = GoalCall("create_goal_features", gsc,
                     CreateGoalFeatures(GoalOf(gsc)))
  /\ UNCHANGED goalFrame

\* The goal read as a synthetic scenario: target > 0, current = target *
\* actual_rate <= target, days_remaining = dl.days >= 1.
SyntheticRow ==
  /\ gsc.op = "init"
  /\ gsc.target > 0
  /\ gsc.current <= gsc.target
  /\ gsc.dl.kind = "date"
  /\ gsc.dl.days >= 1
  /\ gsc' = GoalCall("synthetic_row", gsc,
                     SyntheticFeatures(gsc.target, gsc.current,
                                       gsc.elapsed + gsc.dl.days, gsc.elapsed))
  /\ UNCHANGED goalFrame

\* GoalAchievementScorer.predict: the trained check, the features, the
\* classifier's probability gsc.prob (any value it can return), the reported
\* percentage and the band.
ScorerPredict(i) ==
  /\ gsc.op = "init"
  /\ GoalPredict(inst[i], [id |-> 1]).out = "ok"
  /\ gsc' = [ GoalCall("predict", gsc, CalculateFeatures(GoalOf(gsc)))
                EXCEPT !.probability = RoundTenths(gsc.prob),
                       !.confidence_level = GetConfidenceLevel(gsc.prob) ]
  /\ UNCHANGED goalFrame

NextGoal ==
  \/ CallCalculateFeatures
  \/ CallCreateGoalFeatures
  \/ SyntheticRow
  \/ \E i \in Inst : ScorerPredict(i)

SpecGoal == InitGoal /\ [][NextGoal]_vars

\* The band a reported percentage (in tenths) falls in.
BandOfReported(t) ==
  IF t < 200 THEN "Very Unlikely"
  ELSE IF t < 400 THEN "Unlikely"
  ELSE IF t < 600 THEN "Uncertain"
  ELSE IF t < 800 THEN "Likely"
  ELSE "Very Likely"

\* C11: in every predict result the reported probability is a percentage in
\* [0,100] and confidence_level is the band of that reported percentage.
C11_BandMatchesReportedProbability ==
  gsc.op = "predict" =>
    /\ gsc.probability \in 0..1000
    /\ gsc.confidence_level = BandOfReported(gsc.probability)

\* C12: create_goal_features and _calculate_features both return, with
\* days_to_deadline = max(0, deadline - today) for a given deadline and 365
\* for none (null or no field/column), and required_daily_savings =
\* remaining/days_to_deadline when that is positive, else remaining.
C12_DeadlineFeatures ==
  gsc.op \in {"calculate_features", "create_goal_features"} =>
    /\ gsc.out = "ok"
    /\ gsc.days_to_deadline =
         (IF gsc.dl.kind = "date"
            THEN (IF gsc.dl.days > 0 THEN gsc.dl.days ELSE 0) ELSE 365)
    /\ gsc.req_num = gsc.target - gsc.current
    /\ gsc.req_den = (IF gsc.days_to_deadline > 0
                        THEN gsc.days_to_deadline ELSE 1)

\* C13: on_track_indicator is 1 exactly when completion_rate >= days_elapsed
\* / (days_elapsed + days_to_deadline), at inference as in the synthetic
\* training rows (0 elapsed days: expected progress 0; deadline passed:
\* expected progress 1).
C13_OnTrackIsLinearProgress ==
  (gsc.op \in {"calculate_features", "predict", "synthetic_row"}
     /\ gsc.elapsed + gsc.days_to_deadline > 0) =>
    (gsc.on_track = 1) <=>
      (IF gsc.target > 0
         THEN gsc.current * (gsc.elapsed + gsc.days_to_deadline)
                >= gsc.elapsed * gsc.target
         ELSE gsc.elapsed = 0)

\* ========================================================= anomaly detector
\* Amounts are whole currency units.  A baseline is MaxRun-bounded: na rows
\* of amount xa in category ca followed by nb rows of amount xb in category
\* cb, each row on a day of its own unless same_day.
MaxRun == 6
MaxTotal == 28

MinFitRows == 10
EpsInv == 1000000

BaselineAmounts == {1, 11, 13}
RowAmounts == {1, 11, 24, 30}
BaselineCategories == {"food", "rent"}

Baselines ==
  { b \in [ na : 0..MaxRun, xa : BaselineAmounts, ca : BaselineCategories,
            nb : 0..MaxRun, xb : BaselineAmounts, cb : BaselineCategories,
            same_day : BOOLEAN ] : b.xa <= b.xb }

\* Number of fit calls on one detector.
MaxFits == 2

RefitRuns == {0, MinFitRows \div 2, MinFitRows \div 2 + 1}

RefitBaselines ==
  { b \in Baselines : /\ b.na = b.nb /\ b.na \in RefitRuns
                      /\ b.xa = 1 /\ b.xb > 1
                      /\ b.ca = "food" /\ b.cb = "rent" /\ ~b.same_day }

BaselineRows(b) ==
  [ k \in 1..(b.na + b.nb) |->
      [ amount |-> IF k <= b.na THEN b.xa ELSE b.xb,
        category_name |-> IF k <= b.na THEN b.ca ELSE b.cb,
        expense_date |-> IF b.same_day THEN 1 ELSE k ] ]

RECURSIVE SeqSum(_)
SeqSum(s) == IF s = <<>> THEN 0 ELSE Head(s) + SeqSum(Tail(s))

AmountsOf(rows) == [ k \in 1..Len(rows) |-> rows[k].amount ]

Moments(s) ==
  [ n |-> Len(s), sum |-> SeqSum(s),
    sumsq |-> SeqSum([ k \in 1..Len(s) |-> s[k] * s[k] ]) ]

\* The k-th smallest value of s.
Kth(s, k) ==
  CHOOSE v \in Range(s) :
    /\ Cardinality({ i \in 1..Len(s) : s[i] < v }) < k
    /\ k <= Cardinality({ i \in 1..Len(s) : s[i] <= v })

\* Four times Series.quantile(num/4) (linear interpolation).
Quantile4(s, num) ==
  LET pos == (Len(s) - 1) * num
      i   == pos \div 4
      r   == pos % 4
  IN  IF r = 0 THEN 4 * Kth(s, i + 1)
      ELSE 4 * Kth(s, i + 1) + r * (Kth(s, i + 2) - Kth(s, i + 1))

\* AnomalyDetector._calculate_statistics.
CalculateStatistics(d, rows) ==
  LET am == AmountsOf(rows)
      dayTotal(day) ==
        SeqSum(AmountsOf(SelectSeq(rows, LAMBDA r : r.expense_date = day)))
      days == { rows[k].expense_date : k \in 1..Len(rows) }
      totals == [ k \in 1..Len(rows) |-> IF k \in days THEN dayTotal(k) ELSE 0 ]
  IN  [ d EXCEPT
          !.has_stats = TRUE,
          !.amount = Moments(am),
          !.q1x4 = Quantile4(am, 1),
          !.q3x4 = Quantile4(am, 3),
          !.median_x2 = Quantile4(am, 2) \div 2,
          !.daily = [ n |-> Cardinality(days), sum |-> SeqSum(totals),
                      sumsq |-> SeqSum([ k \in 1..Len(rows) |->
                                           totals[k] * totals[k] ]) ],
          !.categories =
             [ c \in CategoryNames |->
                 Moments(AmountsOf(SelectSeq(rows,
                            LAMBDA r : r.category_name = c))) ] ]

\* AnomalyDetector.fit: nothing on an empty frame; else the statistics, and
\* the outlier model when there are more than MinFitRows feature rows.
Fit(d, rows) ==
  IF Len(rows) = 0 THEN d
  ELSE [ CalculateStatistics(d, rows) EXCEPT
           !.rows = Len(rows),
           !.stats_on = rows,
           !.model_on = IF Len(rows) > MinFitRows THEN rows ELSE d.model_on,
           !.is_fitted = d.is_fitted \/ Len(rows) > MinFitRows ]

\* amount > mean + (k2/2) * std for the moments st, without square roots;
\* std is NaN for a single value and the comparison then false.
ExceedsSigma(a, st, k2) ==
  LET D == st.n * a - st.sum
      V == st.n * st.sumsq - st.sum * st.sum
  IN  /\ st.n >= 2
      /\ D > 0
      /\ 4 * D * D * (st.n - 1) > k2 * k2 * st.n * V

\* amount > Q3 + 1.5 * IQR.
AboveUpperBound(d, a) == 8 * a > 5 * d.q3x4 - 3 * d.q1x4

\* amount > mean + 3 * std.
VeryHigh(d, a) == ExceedsSigma(a, d.amount, 6)

\* amount > category mean + 2.5 * category std, the std of a one-row
\* category being 0.3 * mean; false for a category the baseline lacks.
HighForCategory(d, c, a) ==
  LET st == d.categories[c]
  IN  IF st.n = 0 THEN FALSE
      ELSE IF st.n = 1 THEN 4 * a > 7 * st.sum
      ELSE ExceedsSigma(a, st, 5)

\* AnomalyDetector._detect_amount_anomalies on one row.
DetectAmountAnomalies(d, r) ==
  IF ~d.has_stats THEN r
  ELSE LET high == AboveUpperBound(d, r.amount)
           very == VeryHigh(d, r.amount)
           r1   == IF high
                     THEN [ r EXCEPT !.is_anomaly = TRUE,
                                     !.anomaly_type = "high_amount",
                                     !.anomaly_reason = "high_amount" ]
                     ELSE r
       IN  IF very
             THEN [ r1 EXCEPT !.anomaly_type = "very_high_amount",
                              !.anomaly_reason = "very_high_amount",
                              !.very_high = TRUE ]
             ELSE r1

\* AnomalyDetector._detect_category_anomalies on one row.
DetectCategoryAnomalies(d, r) ==
  IF ~d.has_stats THEN r
  ELSE IF HighForCategory(d, r.category_name, r.amount)
    THEN IF ~r.is_anomaly
           THEN [ r EXCEPT !.is_anomaly = TRUE,
                           !.anomaly_type = "category_outlier",
                           !.anomaly_reason = "category_outlier",
                           !.cat_high = TRUE ]
           ELSE [ r EXCEPT !.cat_high = TRUE ]
    ELSE r

\* AnomalyDetector._detect_timing_anomalies on one row of a frame that
\* carries expense_date; time is "none" without an expense_time column.
\* With the column, the rule reads stats['amount']['median'], a KeyError on
\* a detector without statistics.
DetectTimingAnomalies(d, r) ==
  IF r.time = "none" THEN r
  ELSE IF ~d.has_stats THEN [ r EXCEPT !.out = "KeyError" ]
  ELSE IF r.time = "late" /\ r.amount > d.median_x2
    THEN [ r EXCEPT !.is_anomaly = TRUE, !.anomaly_type = "timing",
                    !.anomaly_reason = "timing" ]
    ELSE r

\* The outlier-model step of detect_anomalies; ml is the model's verdict.
DetectPattern(d, r, ml) ==
  IF d.is_fitted /\ ml
    THEN [ r EXCEPT !.is_anomaly = TRUE,
                    !.anomaly_type =
                       IF r.anomaly_type = "none" THEN "pattern"
                       ELSE r.anomaly_type,
                    !.anomaly_reason =
                       IF r.anomaly_reason = "none" THEN "pattern"
                       ELSE r.anomaly_reason,
                    !.ml = TRUE ]
    ELSE r

\* AnomalyDetector.detect_anomalies on a one-row frame.
DetectAnomaliesRow(d, in, ml) ==
  LET r0 == [ NoRow EXCEPT !.amount = in.amount,
                           !.category_name = in.category_name,
                           !.time = in.time ]
      r1 == DetectAmountAnomalies(d, r0)
      r2 == DetectCategoryAnomalies(d, [ r1 EXCEPT !.type1 = r1.anomaly_type ])
      r3 == DetectTimingAnomalies(d, r2)
  IN  IF r3.out # "ok" THEN r3
      ELSE DetectPattern(d, [ r3 EXCEPT !.type3 = r3.anomaly_type ], ml)

\* z_score > k2/2 for the deviation dev = n*(total - mean) (its negation for
\* z_score < -k2/2), z_score = (total - mean) / (std + 1/EpsInv); false for
\* the NaN std of a one-day baseline.
ZBeyond(st, dev, k2) ==
  LET V == st.n * st.sumsq - st.sum * st.sum
      A == 4 * (st.n - 1) * dev * dev - k2 * k2 * st.n * V
      X == 4 * (st.n - 1) * k2 * st.n * dev
  IN  /\ st.n >= 2
      /\ dev > 0
      /\ A >= (X + EpsInv - 1) \div EpsInv

\* Variant of DetectDailyAnomaly whose "high" starts at the same z as
\* "medium".
DetectDailyAnomaly_HighFromMedium(d, t) ==
  IF ~d.has_stats
    THEN [ NoDay EXCEPT !.total = t, !.reason = "No baseline data",
                        !.severity = "absent" ]
    ELSE LET dev == d.daily.n * t - d.daily.sum
         IN  IF ZBeyond(d.daily, dev, 5)
               THEN [ total |-> t, is_anomaly |-> TRUE, reason |-> "above",
                      severity |-> "high" ]
             ELSE IF ZBeyond(d.daily, 0 - dev, 5)
               THEN [ total |-> t, is_anomaly |-> TRUE, reason |-> "below",
                      severity |-> "low" ]
             ELSE [ NoDay EXCEPT !.total = t ]

\* AnomalyDetector.detect_daily_anomaly.
DetectDailyAnomaly(d, t) ==
  IF ~d.has_stats
    THEN [ NoDay EXCEPT !.total = t, !.reason = "No baseline data",
                        !.severity = "absent" ]
    ELSE LET dev == d.daily.n * t - d.daily.sum
         IN  IF ZBeyond(d.daily, dev, 5)
               THEN [ total |-> t, is_anomaly |-> TRUE, reason |-> "above",
                      severity |-> IF ZBeyond(d.daily, dev, 6)
                                     THEN "high" ELSE "medium" ]
             ELSE IF ZBeyond(d.daily, 0 - dev, 5)
               THEN [ total |-> t, is_anomaly |-> TRUE, reason |-> "below",
                      severity |-> "low" ]
             ELSE [ NoDay EXCEPT !.total = t ]

RowInputs ==
  [ amount : RowAmounts, category_name : CategoryNames,
    time : {"none", "day", "late"} ]

detectorFrame ==
  <<inst, disk, last, removed, orig, trip, svc, fc, gsc, emo, tf, par, rec>>

\* A fresh detector and the baseline it is about to be fitted on.
InitDetector ==
  /\ inst = [i \in Inst |-> SpendingInit]
  /\ disk = [p \in Paths |-> EmptyDir]
  /\ last = Idle
  /\ removed = 0
  /\ orig = NoOrig
  /\ trip = "none"
  /\ svc = NoService
  /\ fc = NoForecast
  /\ gsc = NoGoal
  /\ \E b \in Baselines : det = [ NoDetector EXCEPT !.base = b ]
  /\ emo = NoAnalysis
  /\ tf = NoFeatureCall
  /\ par = NoProcess
  /\ rec = NoRecursion

FitDetector ==
  /\ det.op = "init"
  /\ det' = [ Fit(det, BaselineRows(det.base)) EXCEPT !.op = "fit", !.fits = 1 ]
  /\ UNCHANGED detectorFrame

\* A later fit of the same instance on another table.  The tables of a
\* sequence of fits are drawn from RefitBaselines: empty, of exactly
\* MinFitRows rows, and of more.
FitAgain(b) ==
  /\ det.op = "fit"
  /\ det.fits < MaxFits
  /\ det.base \in RefitBaselines
  /\ det' = [ Fit(det, BaselineRows(b)) EXCEPT !.base = b,
                                               !.fits = det.fits + 1 ]
  /\ UNCHANGED detectorFrame

\* detect_anomalies on a one-row frame (the rules are row-wise).  ml is the
\* outlier model's verdict on the row.  A detector fitted on an empty table
\* is in the state of one that was never fitted.
CallDetectAnomalies(in, ml) ==
  /\ det.op = "fit"
  /\ ml => det.is_fitted
  /\ det' = [ det EXCEPT !.op = "detect_anomalies",
                         !.row = DetectAnomaliesRow(det, in, ml) ]
  /\ UNCHANGED detectorFrame

CallDetectDailyAnomaly(t) ==
  /\ det.op = "fit"
  /\ det' = [ det EXCEPT !.op = "detect_daily_anomaly",
                         !.day = DetectDailyAnomaly(det, t) ]
  /\ UNCHANGED detectorFrame

NextDetector ==
  \/ FitDetector
  \/ \E b \in RefitBaselines : FitAgain(b)
  \/ \E in \in RowInputs, ml \in BOOLEAN : CallDetectAnomalies(in, ml)
  \/ \E t \in 0..MaxTotal : CallDetectDailyAnomaly(t)

SpecDetector == InitDetector /\ [][NextDetector]_vars

\* C14: after fit on a fresh detector with n >= 1 transactions the outlier
\* model is trained exactly when n >= 10; with n < 10 the statistics are
\* computed and the outlier model is not fitted.
C14_FittedFromTenRows ==
  (det.op = "fit" /\ det.base.na + det.base.nb >= 1) =>
    /\ det.is_fitted <=> (det.base.na + det.base.nb >= 10)
    /\ det.has_stats

\* C15: in every output row is_anomaly is true exactly when anomaly_type
\* (and anomaly_reason) is set; a row labelled "very_high_amount" is flagged.
C15_FlagIffLabel ==
  det.op = "detect_anomalies" =>
    /\ det.row.is_anomaly <=> (det.row.anomaly_type # "none")
    /\ det.row.is_anomaly <=> (det.row.anomaly_reason # "none")
    /\ det.row.anomaly_type = "very_high_amount" => det.row.is_anomaly

\* C16: a row whose amount exceeds both the overall mean + 3 std and its
\* category's mean + 2.5 std is reported flagged with both
\* "very_high_amount" and "category_outlier".
C16_BothLabelsReported ==
  (det.op = "detect_anomalies" /\ det.row.very_high /\ det.row.cat_high) =>
    /\ det.row.is_anomaly
    /\ {"very_high_amount", "category_outlier"}
         \subseteq {det.row.anomaly_type, det.row.anomaly_reason}

\* C17: a row gets "category_outlier" only if rule 1 gave it no label and
\* "pattern" only if rules 1-3 gave it none; a row whose amount exceeded
\* mean + 3 std is never shown as "category_outlier" or "pattern".
C17_LaterRulesKeepLabels ==
  det.op = "detect_anomalies" =>
    /\ det.row.anomaly_type = "category_outlier" => det.row.type1 = "none"
    /\ det.row.anomaly_type = "pattern" => det.row.type3 = "none"
    /\ det.row.very_high
         => det.row.anomaly_type \notin {"category_outlier", "pattern"}

\* The total's deviation from the daily mean exceeds k2/2 daily standard
\* deviations upward (z > k2/2), resp. 2.5 downward, for the baseline of det.
DailyDev == det.daily.n * det.day.total - det.daily.sum

DailyVar == det.daily.n * det.daily.sumsq - det.daily.sum * det.daily.sum

DailyAbove(k2) ==
  /\ DailyDev > 0
  /\ 4 * (det.daily.n - 1) * DailyDev * DailyDev > k2 * k2 * det.daily.n * DailyVar

DailyBelow ==
  /\ DailyDev < 0
  /\ 4 * (det.daily.n - 1) * DailyDev * DailyDev > 25 * det.daily.n * DailyVar

\* The total lies at mean + 4 std.
DailyAtFourSigma ==
  /\ DailyDev >= 0
  /\ (det.daily.n - 1) * DailyDev * DailyDev = 16 * det.daily.n * DailyVar

DailyVerdictByZ ==
  /\ det.day.is_anomaly <=> (DailyAbove(5) \/ DailyBelow)
  /\ det.day.severity = "high" <=> DailyAbove(6)
  /\ det.day.severity = "medium" <=> (DailyAbove(5) /\ ~DailyAbove(6))
  /\ det.day.severity = "low" <=> DailyBelow
  /\ det.day.severity = "none" <=> ~(DailyAbove(5) \/ DailyBelow)

\* C18 as claimed: on a fitted detector is_anomaly = (|z| > 2.5) with
\* severity high iff z > 3, medium iff 2.5 < z <= 3, low iff z < -2.5, none
\* otherwise; and for every daily baseline a total at the mean is no anomaly
\* and a total at mean + 4 std is an anomaly of severity "high".
C18_DailySeverityEveryBaseline ==
  (det.op = "detect_daily_anomaly" /\ det.has_stats /\ det.daily.n >= 2) =>
    /\ DailyVar > 0 => DailyVerdictByZ
    /\ DailyDev = 0 => ~det.day.is_anomaly
    /\ DailyAtFourSigma => (det.day.is_anomaly /\ det.day.severity = "high")

\* C18 amended: the same, the mean + 4 std case for the baselines whose daily
\* totals are not all equal (std > 0); a one-day baseline (no std) never
\* reports an anomaly.
C18_DailySeverity ==
  (det.op = "detect_daily_anomaly" /\ det.has_stats) =>
    /\ det.daily.n >= 2 => DailyVerdictByZ
    /\ det.daily.n = 1 => (~det.day.is_anomaly /\ det.day.severity = "none")
    /\ DailyDev = 0 => ~det.day.is_anomaly
    /\ (det.daily.n >= 2 /\ DailyVar > 0 /\ DailyAtFourSigma)
         => (det.day.is_anomaly /\ det.day.severity = "high")

C18_Witness ==
  /\ det.op = "detect_daily_anomaly"
  /\ det.has_stats
  /\ det.daily.n >= 2
  /\ DailyVar > 0
  /\ DailyAtFourSigma
  /\ det.day.is_anomaly
  /\ det.day.severity = "high"

\* ======================================================= emotional analyzer
MaxTagged == 4
MaxUntagged == 1

TableCounts ==
  { t \in [ untagged : 0..MaxUntagged, tagged : 0..MaxTagged,
            impulsive : 0..MaxTagged, negative : 0..MaxTagged,
            unnecessary : 0..MaxTagged, high_stress : 0..MaxTagged,
            high_regret : 0..MaxTagged, low_regret : 0..1,
            emotion_col : BOOLEAN, rebuy_col : BOOLEAN ] :
      /\ t.impulsive + t.negative <= t.tagged
      /\ t.unnecessary <= t.tagged
      /\ t.high_stress <= t.tagged
      /\ t.high_regret + t.low_regret <= t.tagged
      /\ t.tagged > 0 => t.emotion_col
      /\ t.rebuy_col => t.emotion_col }

\* A table of the given counts with every other optional column present and
\* nothing for the trigger, emotion and late-night messages to report.
Plain(c) == [ f \in DOMAIN NoTable |-> IF f \in DOMAIN c THEN c[f] ELSE NoTable[f] ]

PlainTables == { Plain(c) : c \in TableCounts }

\* The optional annotation columns besides would_buy_again.
OptionalColumns ==
  { "was_necessary", "stress_level", "regret_level", "brought_joy",
    "time_of_day", "day_type", "trigger_event", "category_name" }

\* Tables for the recommendations: one tagged row or MaxTagged of them, each
\* kind of row absent or on every tagged row, a capture rate of 100%, of
\* tagged/(tagged+1) and of 1/3, and at most one optional column missing.
ReportTablesOf(n) ==
  { t \in [ untagged : {0, 1, 2 * n}, tagged : {n},
            impulsive : {0, n}, negative : {0, n},
            unnecessary : {0, n}, high_stress : {0, n},
            high_regret : {0, n}, low_regret : 0..1,
            emotion_col : {TRUE}, rebuy_col : BOOLEAN,
            absent : {{}} \cup { {c} : c \in OptionalColumns },
            planned : {0}, stressed : {0}, impulse : {0},
            highest : {"stressed", "bored", "impulsive", "neutral"},
            trigger_over : BOOLEAN, late : BOOLEAN ] :
      /\ t.impulsive + t.negative <= t.tagged
      /\ t.high_regret + t.low_regret <= t.tagged
      /\ t.highest = "stressed" <=> t.negative > 0
      /\ t.highest \in {"bored", "impulsive"} => t.impulsive > 0
      /\ "was_necessary" \in t.absent => t.unnecessary = 0
      /\ "stress_level" \in t.absent => t.high_stress = 0
      /\ "regret_level" \in t.absent => t.high_regret + t.low_regret = 0
      /\ "time_of_day" \in t.absent => ~t.late }

ReportTables == ReportTablesOf(1) \cup ReportTablesOf(MaxTagged)

\* Rows needed for a persona.
MinPersonaRows == 20

\* Tables for the persona: MinPersonaRows tagged rows, one less or one more,
\* and for each share no such row or a count next to its threshold.
\* No row, or a count c of n rows next to the share num/den.
Near(n, num, den) ==
  {0} \cup { c \in 0..n : (den * c - num * n) \in (1 - den)..den }

PersonaTablesOf(n) ==
  { t \in [ untagged : {0}, tagged : {n},
            impulsive : Near(n, 1, 5), negative : Near(n, 3, 10),
            unnecessary : Near(n, 2, 5), high_stress : {0},
            high_regret : {0}, low_regret : {0},
            emotion_col : {TRUE}, rebuy_col : {TRUE}, absent : {{}},
            planned : Near(n, 1, 2), stressed : Near(n, 3, 10),
            impulse : Near(n, 1, 5),
            highest : {"neutral"}, trigger_over : {FALSE}, late : {FALSE} ] :
      /\ t.planned + t.stressed + t.impulse <= t.tagged
      /\ t.impulsive = t.impulse
      /\ t.negative = t.stressed }

PersonaTables ==
  UNION { PersonaTablesOf(n) : n \in (MinPersonaRows - 1)..(MinPersonaRows + 1) }

\* Tables of a later call on the same analyzer: few rows, no annotation
\* beyond the emotion.
LaterTables ==
  { t \in PlainTables :
      /\ t.untagged <= 1
      /\ t.impulsive + t.negative + t.unnecessary + t.high_stress
            + t.high_regret + t.low_regret = 0
      /\ t.rebuy_col = t.emotion_col }

Tables == PlainTables \cup ReportTables \cup PersonaTables

\* round(num/den) as Python rounds: to the nearest integer, halves to even.
RoundHalfEven(num, den) ==
  LET q == num \div den
      r == num % den
  IN  IF 2 * r < den THEN q
      ELSE IF 2 * r > den THEN q + 1
      ELSE IF q % 2 = 0 THEN q ELSE q + 1

Min(x, y) == IF x <= y THEN x ELSE y

\* Variant of CalculateRiskScore whose first factor has no cap.
CalculateRiskScore_UncappedImpulsive(t) ==
  Min(100, RoundHalfEven(100 * t.impulsive
                           + Min(25 * t.tagged, 50 * t.unnecessary)
                           + Min(20 * t.tagged, 50 * t.high_stress)
                           + Min(15 * t.tagged, 30 * t.negative)
                           + Min(15 * t.tagged, 50 * t.high_regret),
                         t.tagged))

\* EmotionalPatternAnalyzer._calculate_risk_score on the tagged rows: the
\* five capped factors over the common denominator t.tagged.
CalculateRiskScore(t) ==
  Min(100, RoundHalfEven(Min(25 * t.tagged, 100 * t.impulsive)
                           + Min(25 * t.tagged, 50 * t.unnecessary)
                           + Min(20 * t.tagged, 50 * t.high_stress)
                           + Min(15 * t.tagged, 30 * t.negative)
                           + Min(15 * t.tagged, 50 * t.high_regret),
                         t.tagged))

\* EmotionalPatternAnalyzer._empty_analysis.
EmptyAnalysis ==
  [ out |-> "ok", kind |-> "empty", risk_score |-> 0, breakdowns |-> 0,
    recommendations |-> <<"bootstrap">>, persona |-> "none",
    regret_summary |-> FALSE ]

Raised(e) ==
  [ out |-> e, kind |-> "none", risk_score |-> 0, breakdowns |-> 0,
    recommendations |-> <<>>, persona |-> "none", regret_summary |-> FALSE ]

\* summary['emotion_capture_rate'] in tenths of a percent.
CaptureRate(t) == RoundHalfEven(1000 * t.tagged, t.tagged + t.untagged)

\* regret_analysis['has_data'] of _analyze_regret when it returns.
RegretHasData(t) ==
  "regret_level" \notin t.absent /\ t.high_regret + t.low_regret > 0

Opt(cond, label) == IF cond THEN <<label>> ELSE <<>>

FirstN(seq, n) == SubSeq(seq, 1, Min(n, Len(seq)))

\* Variant of GenerateRecommendations whose risk messages are two
\* independent tests.
GenerateRecommendations_BothRiskMessages(t, risk_score) ==
  FirstN(
    Opt(risk_score >= 60, "urgent") \o Opt(risk_score >= 40, "caution")
      \o Opt(t.trigger_over, "trigger")
      \o Opt(t.highest \in {"stressed", "bored", "impulsive"}, "emotion_tip")
      \o Opt(RegretHasData(t) /\ t.high_regret > 3, "regret")
      \o Opt(t.late, "late_night")
      \o (IF CaptureRate(t) >= 800 THEN <<"praise">>
          ELSE IF CaptureRate(t) < 500 THEN <<"nudge">> ELSE <<>>),
    5)

\* EmotionalPatternAnalyzer._generate_recommendations on the patterns of
\* table t and the risk score: the messages in the order they are appended,
\* cut to the first five.
GenerateRecommendations(t, risk_score) ==
  FirstN(
    (IF risk_score >= 60 THEN <<"urgent">>
     ELSE IF risk_score >= 40 THEN <<"caution">> ELSE <<>>)
      \o Opt(t.trigger_over, "trigger")
      \o Opt(t.highest \in {"stressed", "bored", "impulsive"}, "emotion_tip")
      \o Opt(RegretHasData(t) /\ t.high_regret > 3, "regret")
      \o Opt(t.late, "late_night")
      \o (IF CaptureRate(t) >= 800 THEN <<"praise">>
          ELSE IF CaptureRate(t) < 500 THEN <<"nudge">> ELSE <<>>),
    5)

\* Variant of IdentifySpendingPersona that tests the stress rule first.
IdentifySpendingPersona_StressFirst(t) ==
  IF 10 * t.stressed > 3 * t.tagged THEN "The Stress Spender"
  ELSE IF 2 * t.planned > t.tagged THEN "The Planner"
  ELSE IF 5 * t.impulse > t.tagged THEN "The Impulse Buyer"
  ELSE IF 10 * t.unnecessary > 4 * t.tagged THEN "The Treat-Yourself Type"
  ELSE "The Balanced Spender"

\* EmotionalPatternAnalyzer._identify_spending_persona: the ordered rules
\* over the shares of the tagged rows.
IdentifySpendingPersona(t) ==
  IF 2 * t.planned > t.tagged THEN "The Planner"
  ELSE IF 10 * t.stressed > 3 * t.tagged THEN "The Stress Spender"
  ELSE IF 5 * t.impulse > t.tagged THEN "The Impulse Buyer"
  ELSE IF 10 * t.unnecessary > 4 * t.tagged THEN "The Treat-Yourself Type"
  ELSE "The Balanced Spender"

\* EmotionalPatternAnalyzer.analyze: the empty-frame return, the
\* primary_emotion filter (KeyError without the column), the sub-analyses
\* (_analyze_summary indexes the frame by False, a KeyError, when the frame
\* has no was_necessary column; _analyze_regret does the same when some row
\* has a regret_level and the frame has no brought_joy or no
\* would_buy_again column), the risk score, the recommendations and, from
\* MinPersonaRows tagged rows, the persona.
Analyze(t) ==
  IF t.untagged + t.tagged = 0 THEN EmptyAnalysis
  ELSE IF ~t.emotion_col THEN Raised("KeyError")
  ELSE IF t.tagged = 0 THEN EmptyAnalysis
  ELSE IF "was_necessary" \in t.absent THEN Raised("KeyError")
  ELSE IF RegretHasData(t) /\ ("brought_joy" \in t.absent \/ ~t.rebuy_col)
    THEN Raised("KeyError")
  ELSE [ out |-> "ok", kind |-> "patterns",
         risk_score |-> CalculateRiskScore(t), breakdowns |-> t.tagged,
         recommendations |-> GenerateRecommendations(t, CalculateRiskScore(t)),
         persona |-> IF t.tagged >= MinPersonaRows
                       THEN IdentifySpendingPersona(t) ELSE "none",
         regret_summary |-> RegretHasData(t) ]

emotionFrame ==
  <<inst, disk, last, removed, orig, trip, svc, fc, gsc, det, tf, par, rec>>

InitEmotion ==
  /\ inst = [i \in Inst |-> SpendingInit]
  /\ disk = [p \in Paths |-> EmptyDir]
  /\ last = Idle
  /\ removed = 0
  /\ orig = NoOrig
  /\ trip = "none"
  /\ svc = NoService
  /\ fc = NoForecast
  /\ gsc = NoGoal
  /\ det = NoDetector
  /\ \E t \in Tables : emo = [ NoAnalysis EXCEPT !.ds = t ]
  /\ tf = NoFeatureCall
  /\ par = NoProcess
  /\ rec = NoRecursion

\* One analyze call on table t: the returned analysis, and self.patterns
\* replaced by it when the call built one (the no-data payload is a fresh
\* dict, self.patterns keeps what it held).
AnalyzeCall(e, t) ==
  LET a == Analyze(t)
  IN  [ e EXCEPT !.op = "analyze", !.ds = t, !.out = a.out,
                 !.kind = a.kind, !.risk_score = a.risk_score,
                 !.breakdowns = a.breakdowns,
                 !.recommendations = a.recommendations,
                 !.persona = a.persona,
                 !.regret_summary = a.regret_summary,
                 !.patterns_persona = IF a.kind = "patterns" THEN a.persona
                                      ELSE e.patterns_persona,
                 !.prev_persona = e.persona ]

CallAnalyze ==
  /\ emo.op = "init"
  /\ emo' = AnalyzeCall(emo, emo.ds)
  /\ UNCHANGED emotionFrame

\* A later analyze call on the analyzer that has analysed a table of about
\* MinPersonaRows rows.
CallAnalyzeAgain(t) ==
  /\ emo.op = "analyze"
  /\ emo.ds \in PersonaTables
  /\ emo' = AnalyzeCall(emo, t)
  /\ UNCHANGED emotionFrame

\* _calculate_risk_score called on a non-empty frame of tagged rows.
CallCalculateRiskScore ==
  /\ emo.op = "init"
  /\ emo.ds.tagged > 0
  /\ emo' = [ emo EXCEPT !.op = "calculate_risk_score", !.out = "ok",
                         !.kind = "score",
                         !.risk_score = CalculateRiskScore(emo.ds) ]
  /\ UNCHANGED emotionFrame

NextEmotion ==
  \/ CallAnalyze
  \/ \E t \in LaterTables : CallAnalyzeAgain(t)
  \/ CallCalculateRiskScore

SpecEmotion == InitEmotion /\ [][NextEmotion]_vars

\* C19: analyze on a table without an emotion-tagged row (empty, every
\* emotion null, or no emotion column) returns the no-data payload (risk
\* score 0, empty breakdowns, the one bootstrapping recommendation) and does
\* not raise.
C19_NoTaggedRowsGiveNoDataPayload ==
  (emo.op = "analyze" /\ emo.ds.tagged = 0) =>
    /\ emo.out = "ok"
    /\ emo.kind = "empty"
    /\ emo.risk_score = 0
    /\ emo.breakdowns = 0
    /\ emo.recommendations = <<"bootstrap">>

\* The sum of the five capped contributions, times the number of tagged rows.
CappedSumTimesRows ==
  Min(25 * emo.ds.tagged, 100 * emo.ds.impulsive)
    + Min(25 * emo.ds.tagged, 50 * emo.ds.unnecessary)
    + Min(20 * emo.ds.tagged, 50 * emo.ds.high_stress)
    + Min(15 * emo.ds.tagged, 30 * emo.ds.negative)
    + Min(15 * emo.ds.tagged, 50 * emo.ds.high_regret)

\* C20: for a non-empty tagged dataset the risk score is an integer in
\* [0,100] within one half of the sum of the five capped contributions (its
\* rounding), and 0 when no row is impulsive, unnecessary, high-stress,
\* negative or high-regret.
C20_RiskScoreIsCappedSum ==
  (emo.kind \in {"score", "patterns"}) =>
    /\ emo.risk_score \in 0..100
    /\ 2 * (emo.ds.tagged * emo.risk_score - CappedSumTimesRows) <= emo.ds.tagged
    /\ 2 * (CappedSumTimesRows - emo.ds.tagged * emo.risk_score) <= emo.ds.tagged
    /\ (emo.ds.impulsive + emo.ds.unnecessary + emo.ds.high_stress
          + emo.ds.negative + emo.ds.high_regret = 0) => emo.risk_score = 0

C20_Witness ==
  /\ emo.op = "calculate_risk_score"
  /\ emo.ds.impulsive = emo.ds.tagged
  /\ emo.ds.unnecessary = 1
  /\ emo.ds.tagged = 4
  /\ emo.risk_score > 25

\* ------------------------------------------------- failure leaves no trace

\* C27: a train, train_with_synthetic, save or load call that ends in an
\* error leaves the instances exactly as they were before the call, and a
\* failing save leaves the artifact files on disk exactly as they were.
C27_FailureLeavesStateAndDisk ==
  [][ (/\ last'.op \in {"train", "train_with_synthetic", "save", "load"}
       /\ last'.out # "ok")
        => inst' = inst /\ disk' = disk ]_vars

\* ------------------------------------------------- repeated fits, no baseline

\* C28: after any sequence of fit calls, whenever is_fitted is true the
\* outlier model and its scaler were fitted on the table the stored
\* statistics were computed from.
C28_ModelAndStatisticsFromOneTable ==
  det.is_fitted => det.model_on = det.stats_on

\* C29: detect_anomalies on a detector without a baseline (never fitted,
\* or fitted only with an empty table) returns the row with is_anomaly
\* False and no label and does not raise, whether or not the table carries
\* a transaction-time column.
C29_NoBaselineFlagsNothing ==
  (det.op = "detect_anomalies" /\ ~det.has_stats /\ ~det.is_fitted)
    => /\ det.row.out = "ok"
       /\ ~det.row.is_anomaly
       /\ det.row.anomaly_type = "none"

\* ------------------------------------------ recommendations, persona, columns

\* Position of a message in the fixed order.
Rank(m) ==
  CASE m \in {"urgent", "caution"} -> 1
    [] m = "trigger" -> 2
    [] m = "emotion_tip" -> 3
    [] m = "regret" -> 4
    [] m = "late_night" -> 5
    [] m \in {"praise", "nudge"} -> 6
    [] OTHER -> 0

\* The messages whose condition holds for the analysed table.
Applies ==
  { m \in {"urgent", "caution", "trigger", "emotion_tip", "regret",
           "late_night", "praise", "nudge"} :
      CASE m = "urgent" -> emo.risk_score >= 60
        [] m = "caution" -> emo.risk_score >= 40 /\ emo.risk_score < 60
        [] m = "trigger" -> emo.ds.trigger_over
        [] m = "emotion_tip" -> emo.ds.highest \in {"stressed", "bored", "impulsive"}
        [] m = "regret" -> emo.ds.high_regret > 3
        [] m = "late_night" -> emo.ds.late
        [] m = "praise" -> CaptureRate(emo.ds) >= 800
        [] m = "nudge" -> CaptureRate(emo.ds) < 500 }

\* C21: an analysis carries at most 5 recommendations, in the fixed order
\* risk message, trigger, emotion tip, regret, late night, closing message;
\* each appears only if its condition holds (urgent and caution never both)
\* and a message whose condition holds is missing only when five messages
\* that precede it in the order were returned.
C21_RecommendationsOrderedAndCut ==
  (emo.op = "analyze" /\ emo.kind = "patterns") =>
    LET recs == emo.recommendations
    IN  /\ Len(recs) <= 5
        /\ \A j \in 1..Len(recs), k \in 1..Len(recs) :
             j < k => Rank(recs[j]) < Rank(recs[k])
        /\ Range(recs) \subseteq Applies
        /\ \A m \in Applies \ Range(recs) :
             /\ Len(recs) = 5
             /\ \A k \in 1..Len(recs) : Rank(recs[k]) < Rank(m)

C21_Witness ==
  /\ emo.op = "analyze"
  /\ emo.kind = "patterns"
  /\ Cardinality(Applies) = 6
  /\ emo.recommendations
       = <<"urgent", "trigger", "emotion_tip", "regret", "late_night">>

\* The persona the ordered rules give the analysed table.
PersonaByRules ==
  IF 2 * emo.ds.planned > emo.ds.tagged THEN "The Planner"
  ELSE IF 10 * emo.ds.stressed > 3 * emo.ds.tagged THEN "The Stress Spender"
  ELSE IF 10 * emo.ds.impulse > 2 * emo.ds.tagged THEN "The Impulse Buyer"
  ELSE IF 10 * emo.ds.unnecessary > 4 * emo.ds.tagged
    THEN "The Treat-Yourself Type"
  ELSE "The Balanced Spender"

C30_AbsentOptionalColumnsDegrade ==
  (emo.op = "analyze" /\ emo.ds.tagged > 0) =>
    /\ emo.out = "ok"
    /\ (emo.ds.high_regret + emo.ds.low_regret > 0) => emo.regret_summary

\* ------------------------------------------------------------ time features

\* Dates are the days of the leap year 2024, numbered from 1 January (a
\* Monday).
MonthLengths == <<31, 29, 31, 30, 31, 30, 31, 31, 30, 31, 30, 31>>

Dates == 1..SeqSum(MonthLengths)

\* dates.dt.month and dates.dt.day of day n, counted from month m.
RECURSIVE MonthDay(_, _)
MonthDay(n, m) ==
  IF n <= MonthLengths[m] THEN [ month |-> m, day |-> n ]
  ELSE MonthDay(n - MonthLengths[m], m + 1)

Flag(b) == IF b THEN 1 ELSE 0

\* Variant of TimeFeatures whose month start ends before the fifth.
TimeFeatures_MonthStartBeforeFifth(n) ==
  LET md  == MonthDay(n, 1)
      dow == (n - 1) % 7
  IN  [ day_of_week |-> dow,
        day_of_month |-> md.day,
        week_of_year |-> IF n >= 365 THEN 1 ELSE (n - 1) \div 7 + 1,
        month |-> md.month,
        quarter |-> (md.month - 1) \div 3 + 1,
        year |-> 2024,
        is_weekend |-> Flag(dow \in {5, 6}),
        is_month_start |-> Flag(md.day < 5),
        is_month_end |-> Flag(md.day >= 25),
        is_payday |-> Flag(md.day \in {1, 15}) ]

\* The columns create_time_features computes for the date n: day of week
\* (Monday 0), day of month, ISO week (30 and 31 December 2024 belong to week
\* 1 of 2025), month, quarter, year and the four flags.
TimeFeatures(n) ==
  LET md  == MonthDay(n, 1)
      dow == (n - 1) % 7
  IN  [ day_of_week |-> dow,
        day_of_month |-> md.day,
        week_of_year |-> IF n >= 365 THEN 1 ELSE (n - 1) \div 7 + 1,
        month |-> md.month,
        quarter |-> (md.month - 1) \div 3 + 1,
        year |-> 2024,
        is_weekend |-> Flag(dow \in {5, 6}),
        is_month_start |-> Flag(md.day <= 5),
        is_month_end |-> Flag(md.day >= 25),
        is_payday |-> Flag(md.day \in {1, 15}) ]

\* FeatureEngineer.create_time_features(df): the work is done on a copy;
\* the outcome, the caller's frame after the call and the frame returned.
CreateTimeFeatures(df) ==
  IF ~df.has_date
    THEN [ out |-> "ValueError", df |-> df, result |-> NoFrame ]
    ELSE [ out |-> "ok", df |-> df,
           result |-> [ df EXCEPT
                          !.has_features = TRUE,
                          !.rows = [ k \in DOMAIN df.rows |->
                                       [ df.rows[k] EXCEPT
                                           !.f = TimeFeatures(df.rows[k].date) ] ] ] ]

\* Rows per frame.
MaxFrameRows == 1

\* Frames handed to create_time_features: without the date column; with
\* it; and with time-feature columns already there, holding the values of
\* another date.
FeatureFrames ==
  { [ has_date |-> FALSE, has_features |-> FALSE,
      rows |-> << [ date |-> 1, f |-> NoTimeFeatures ] >> ] }
  \cup
  { [ has_date |-> TRUE, has_features |-> st,
      rows |-> [ k \in 1..n |->
                   [ date |-> ((d + 40 * (k - 1) - 1) % SeqSum(MonthLengths)) + 1,
                     f |-> IF st THEN TimeFeatures(1) ELSE NoTimeFeatures ] ] ] :
      d \in Dates, st \in BOOLEAN, n \in 1..MaxFrameRows }

featureFrame ==
  <<inst, disk, last, removed, orig, trip, svc, fc, gsc, det, emo, par, rec>>

InitFeatures ==
  /\ inst = [i \in Inst |-> SpendingInit]
  /\ disk = [p \in Paths |-> EmptyDir]
  /\ last = Idle
  /\ removed = 0
  /\ orig = NoOrig
  /\ trip = "none"
  /\ svc = NoService
  /\ fc = NoForecast
  /\ gsc = NoGoal
  /\ det = NoDetector
  /\ emo = NoAnalysis
  /\ \E x \in FeatureFrames : tf = [ NoFeatureCall EXCEPT !.given = x, !.df = x ]
  /\ par = NoProcess
  /\ rec = NoRecursion

\* The first call on the caller's frame.
CallCreateTimeFeatures ==
  /\ tf.op = "init"
  /\ LET r == CreateTimeFeatures(tf.df)
     IN  tf' = [ tf EXCEPT !.op = "first", !.out = r.out, !.df = r.df,
                           !.first = r.result ]
  /\ UNCHANGED featureFrame

\* A second call on the same frame.
CallCreateTimeFeaturesAgain ==
  /\ tf.op = "first"
  /\ LET r == CreateTimeFeatures(tf.df)
     IN  tf' = [ tf EXCEPT !.op = "second", !.out = r.out, !.df = r.df,
                           !.second = r.result ]
  /\ UNCHANGED featureFrame

\* A call on the frame the first call returned.
CallCreateTimeFeaturesOnResult ==
  /\ tf.op = "first"
  /\ tf.out = "ok"
  /\ LET r == CreateTimeFeatures(tf.first)
     IN  tf' = [ tf EXCEPT !.op = "nested", !.out = r.out,
                           !.first = r.df, !.nested = r.result ]
  /\ UNCHANGED featureFrame

NextFeatures ==
  \/ CallCreateTimeFeatures
  \/ CallCreateTimeFeaturesAgain
  \/ CallCreateTimeFeaturesOnResult

SpecFeatures == InitFeatures /\ [][NextFeatures]_vars

\* C23: create_time_features leaves the caller's frame as it was, a second
\* call on the same frame returns what the first returned, a call on the
\* returned frame returns that frame, and in every returned row
\* is_month_start = (day <= 5), is_month_end = (day >= 25),
\* is_payday = (day in {1, 15}) and is_weekend = (day_of_week in {5, 6}).
C23_TimeFeaturesPureIdempotent ==
  /\ tf.df = tf.given
  /\ tf.op = "second" => tf.second = tf.first
  /\ tf.op = "nested" => tf.nested = tf.first
  /\ \A k \in DOMAIN tf.first.rows :
       LET r == tf.first.rows[k].f
       IN  /\ r.is_month_start = Flag(r.day_of_month <= 5)
           /\ r.is_month_end = Flag(r.day_of_month >= 25)
           /\ r.is_payday = Flag(r.day_of_month \in {1, 15})
           /\ r.is_weekend = Flag(r.day_of_week \in {5, 6})
           /\ r.day_of_month \in 1..31
           /\ r.day_of_week \in 0..6

C23_Witness ==
  /\ tf.op = "nested"
  /\ tf.given.has_features
  /\ tf.first.rows[1].f.day_of_month = 5
  /\ tf.first.rows[1].f.is_month_start = 1
  /\ tf.first.rows[1].f.is_weekend = 1

\* ---------------------------------------------- two users, one process

\* Draws of one synthetic training (the loop draws eleven values for each
\* of its 1000 scenarios).
MaxDraws == 2

\* np.random.seed(42): the generator restarts its stream.
Seed(p) == [ p EXCEPT !.rng = 0 ]

\* One np.random call of user u: the next value of the stream (named by its
\* position) and the generator moved on.
Draw(p, u) ==
  [ p EXCEPT !.rng = p.rng + 1,
             !.drawn[u] = Append(p.drawn[u], p.rng + 1) ]

\* The values a training running alone draws after its seed.
SeededStream == [ k \in 1..MaxDraws |-> k ]

processFrame ==
  <<inst, disk, last, removed, orig, trip, svc, fc, gsc, det, emo, tf, rec>>

\* Two requests, each with an AIService and a goal scorer of its own, in
\* one process.
InitProcess ==
  /\ inst = [i \in Inst |-> SpendingInit]
  /\ disk = [p \in Paths |-> EmptyDir]
  /\ last = Idle
  /\ removed = 0
  /\ orig = NoOrig
  /\ trip = "none"
  /\ svc = NoService
  /\ fc = NoForecast
  /\ gsc = NoGoal
  /\ det = NoDetector
  /\ emo = NoAnalysis
  /\ tf = NoFeatureCall
  /\ par = NoProcess
  /\ rec = NoRecursion

\* train_with_synthetic of user u starts: the seed.
SyntheticSeed(u) ==
  /\ par.pc[u] = "idle"
  /\ par' = [ Seed(par) EXCEPT !.pc[u] = "drawing", !.drawn[u] = <<>> ]
  /\ UNCHANGED processFrame

\* One draw of the scenario loop.  The calls of different users run in
\* parallel threads; a numpy call is atomic.
SyntheticDraw(u) ==
  /\ par.pc[u] = "drawing"
  /\ Len(par.drawn[u]) < MaxDraws
  /\ par' = Draw(par, u)
  /\ UNCHANGED processFrame

\* The loop is over: train(df, outcomes) on the scenarios drawn.
SyntheticTrain(u) ==
  /\ par.pc[u] = "drawing"
  /\ Len(par.drawn[u]) = MaxDraws
  /\ par' = [ par EXCEPT !.pc[u] = "trained", !.trained_on[u] = par.drawn[u] ]
  /\ UNCHANGED processFrame

\* predict of user u's trained scorer: it reads the instance only.
ScorerPredictOf(u) ==
  /\ par.pc[u] = "trained"
  /\ par' = [ par EXCEPT !.pc[u] = "predicted" ]
  /\ UNCHANGED processFrame

\* The request is over; the next request of the user gets a new instance.
NextRequest(u) ==
  /\ par.pc[u] = "predicted"
  /\ par' = [ par EXCEPT !.pc[u] = "idle", !.drawn[u] = <<>>,
                         !.trained_on[u] = <<>> ]
  /\ UNCHANGED processFrame

NextProcess ==
  \E u \in Users :
    \/ SyntheticSeed(u)
    \/ SyntheticDraw(u)
    \/ SyntheticTrain(u)
    \/ ScorerPredictOf(u)
    \/ NextRequest(u)

SpecProcess == InitProcess /\ [][NextProcess]_vars

\* C24: whatever the other user's instance does meanwhile, an instance
\* trained on synthetic data is trained on the data it gets when its
\* training runs alone.
C24_InstancesShareNoState ==
  \A u \in Users :
    par.pc[u] \in {"trained", "predicted"} => par.trained_on[u] = SeededStream

\* ------------------------------------------------------- recursive forecast

\* Days forecast by one predict call.
MaxHorizon == 31

\* The spend observed on date n, in cents (series s).
Observed(s, n) == 20 * ((s + n * n) % 17)

\* The daily frame of len consecutive dates up to end.
SeriesRows(s, end, len) ==
  [ k \in 1..len |-> [ date |-> end - len + k,
                       total_spent |-> Observed(s, end - len + k) ] ]

\* A feature value: a spend, or the mean num/den of several.
Exact(v) == [ num |-> v, den |-> 1 ]

\* total_spent.shift(j).fillna(0) at row k.
Shift(df, k, j) == IF k > j THEN Exact(df[k - j].total_spent) ELSE Exact(0)

\* SpendingPredictor._create_features: the time features of each row's own
\* date, the lags and the velocity.  (The rolling means and the volatility
\* are further columns of the same rows, computed from the same totals.)
CreateFeatures(df) ==
  [ k \in 1..Len(df) |->
      [ date |-> df[k].date,
        total_spent |-> df[k].total_spent,
        t |-> TimeFeatures(df[k].date),
        lag_1 |-> Shift(df, k, 1),
        lag_7 |-> Shift(df, k, 7),
        lag_14 |-> Shift(df, k, 14),
        lag_30 |-> Shift(df, k, 30),
        spending_velocity |->
          IF k > 1 THEN df[k].total_spent - df[k - 1].total_spent ELSE 0 ] ]

Totals(buf) == [ k \in 1..Len(buf) |-> buf[k].total_spent ]

\* df['total_spent'].iloc[-k] if len(df) >= k else df['total_spent'].mean().
TailOrMean(buf, k) ==
  IF Len(buf) >= k THEN Exact(buf[Len(buf) - k + 1].total_spent)
  ELSE [ num |-> SeqSum(Totals(buf)), den |-> Len(buf) ]

\* Variant of CreateNextDayRow whose lag_7 is taken one row too early.
CreateNextDayRow_LagSevenOffByOne(buf, next_date, predicted_amount) ==
  [ date |-> next_date,
    total_spent |-> predicted_amount,
    t |-> TimeFeatures(next_date),
    lag_1 |-> Exact(buf[Len(buf)].total_spent),
    lag_7 |-> TailOrMean(buf, 8),
    lag_14 |-> TailOrMean(buf, 14),
    lag_30 |-> TailOrMean(buf, 30),
    spending_velocity |-> predicted_amount - buf[Len(buf)].total_spent ]

\* SpendingPredictor._create_next_day_row.
CreateNextDayRow(buf, next_date, predicted_amount) ==
  [ date |-> next_date,
    total_spent |-> predicted_amount,
    t |-> TimeFeatures(next_date),
    lag_1 |-> Exact(buf[Len(buf)].total_spent),
    lag_7 |-> TailOrMean(buf, 7),
    lag_14 |-> TailOrMean(buf, 14),
    lag_30 |-> TailOrMean(buf, 30),
    spending_velocity |-> predicted_amount - buf[Len(buf)].total_spent ]

\* The three fitted members on a feature row x, in whole dollars: some
\* function of the row for each member, fixed by the fit w.
MemberPredictions(w, x) ==
  [ gbm |-> ((x.lag_1.num \div x.lag_1.den) \div 20 + x.t.day_of_week + w)
              % (MaxMember + 1),
    rf |-> (x.total_spent \div 20 + 3 * x.t.is_payday + 2 * w)
              % (MaxMember + 1),
    ridge |-> ((x.lag_7.num \div x.lag_7.den) \div 20 + x.t.day_of_month)
              % (MaxMember + 1) ]

\* The pairs (feature row, target) SpendingPredictor.train fits on.
TrainingPairs(df) ==
  LET feats == CreateFeatures(df)
  IN  [ k \in 1..Len(feats) |->
          [ x |-> feats[k], y |-> feats[k].total_spent, date |-> feats[k].date ] ]

\* Last dates, lengths of the recent frame and fits.
RecentEnds == {74, 200}
RecentLengths == {1, 7, 30}
Fits == {1, 2}

recursionFrame ==
  <<inst, disk, last, removed, orig, trip, svc, fc, gsc, det, emo, tf, par>>

InitRecursion ==
  /\ inst = [i \in Inst |-> SpendingInit]
  /\ disk = [p \in Paths |-> EmptyDir]
  /\ last = Idle
  /\ removed = 0
  /\ orig = NoOrig
  /\ trip = "none"
  /\ svc = NoService
  /\ fc = NoForecast
  /\ gsc = NoGoal
  /\ det = NoDetector
  /\ emo = NoAnalysis
  /\ tf = NoFeatureCall
  /\ par = NoProcess
  /\ \E e \in RecentEnds, n \in RecentLengths, h \in 0..MaxHorizon :
       rec = [ NoRecursion EXCEPT !.given = SeriesRows(0, e, n),
                                  !.df = SeriesRows(0, e, n),
                                  !.H = h ]

\* SpendingPredictor.train on the MinTrainRows days up to the recent
\* frame's last date.
TrainRecursive(w) ==
  /\ rec.op = "init"
  /\ rec' = [ rec EXCEPT
                !.op = "trained", !.out = "ok", !.is_trained = TRUE, !.w = w,
                !.pairs = TrainingPairs(
                            SeriesRows(0, rec.given[Len(rec.given)].date,
                                       MinTrainRows)) ]
  /\ UNCHANGED recursionFrame

\* predict up to the loop: the guard, the features of the recent frame (on
\* a copy), the working buffer and the last observed date.
PredictStart ==
  /\ rec.op \in {"init", "trained"}
  /\ rec' = IF ~rec.is_trained
              THEN [ rec EXCEPT !.op = "returned", !.out = "ValueError" ]
              ELSE [ rec EXCEPT
                       !.op = "predicting", !.out = "",
                       !.buf = CreateFeatures(rec.df),
                       !.last_date = rec.df[Len(rec.df)].date,
                       !.i = 0 ]
  /\ UNCHANGED recursionFrame

\* One pass of the loop: the members on the buffer's last row, the
\* ensemble value and its interval, the date, and the row appended.
PredictStep ==
  /\ rec.op = "predicting"
  /\ rec.i < rec.H
  /\ LET X == rec.buf[Len(rec.buf)]
         m == MemberPredictions(rec.w, X)
         v == Interval(m.gbm, m.rf, m.ridge)
         pred_date == rec.last_date + rec.i + 1
     IN  rec' = [ rec EXCEPT
                    !.i = rec.i + 1,
                    !.used = Append(rec.used, X),
                    !.predictions = Append(rec.predictions, v.prediction),
                    !.dates = Append(rec.dates, pred_date),
                    !.lower_bounds = Append(rec.lower_bounds, v.lower_bound),
                    !.upper_bounds = Append(rec.upper_bounds, v.upper_bound),
                    !.buf = Append(rec.buf,
                                   CreateNextDayRow(rec.buf, pred_date,
                                                    v.prediction)) ]
  /\ UNCHANGED recursionFrame

\* The loop is over: the result is returned.
PredictReturn ==
  /\ rec.op = "predicting"
  /\ rec.i = rec.H
  /\ rec' = [ rec EXCEPT !.op = "returned", !.out = "ok" ]
  /\ UNCHANGED recursionFrame

NextRecursion ==
  \/ \E w \in Fits : TrainRecursive(w)
  \/ PredictStart
  \/ PredictStep
  \/ PredictReturn

SpecRecursion == InitRecursion /\ [][NextRecursion]_vars

C26_FeaturesAlignedWithTarget ==
  /\ \A k \in 1..Len(rec.pairs) :
       /\ rec.pairs[k].x.date = rec.pairs[k].date
       /\ rec.pairs[k].x.t = TimeFeatures(rec.pairs[k].date)
       /\ k > 1 => rec.pairs[k].x.lag_1 = Exact(rec.pairs[k - 1].y)
  /\ \A j \in 1..Len(rec.used) :
       /\ rec.used[j].t = TimeFeatures(rec.dates[j])
       /\ rec.used[j].lag_1 = Exact(rec.buf[Len(rec.given) + j - 1].total_spent)

====
